---- MODULE Spec2Model ----
(***************************************************************************)
(* A model of envoy, a command-line parcel tracker: the carrier classifier *)
(* (pkg/common.go DetectCarrier), the carrier clients' Track (pkg/fedex,   *)
(* pkg/ups, pkg/usps) and the orchestrator syncParcels (cmd/envoy/main.go).*)
(*                                                                         *)
(* A tracking number is a sequence of one-character strings.  A regular    *)
(* expression is a set of alternatives; an alternative is a sequence of    *)
(* segments [cs, lo, hi]: between lo and hi characters of the set cs.  All *)
(* the patterns of the source are anchored with ^ and $.                    *)
(***************************************************************************)
EXTENDS Integers, Sequences, FiniteSets, TLC

VARIABLES
    raw, carrier, cpc,                  \* the classifier: input, result, call state
    svc, tbatch, tnet, tres, tpc,       \* one carrier client and its last Track call
    args, spc, groups, todo, gor,       \* syncParcels: input, main routine, goroutines
    allParcels, mu, store, printed,     \* its result map, mutex, the database, stdout
    wg,                                 \* its WaitGroup counter
    fin, fout, fpc,                     \* one normalizing function: input, result, call state
    reqs,                               \* one USPS TrackRaw call and its goroutines
    callers                             \* one client used by overlapping Track calls

clsVars == <<raw, carrier, cpc>>
trkVars == <<svc, tbatch, tnet, tres, tpc>>
synVars == <<args, spc, groups, todo, gor, allParcels, mu, store, printed, wg>>
fnVars == <<fin, fout, fpc>>
conVars == <<reqs, callers>>
vars == <<clsVars, trkVars, synVars, fnVars, conVars>>

----------------------------------------------------------------------------
(* Characters *)

DigitChars == <<"0", "1", "2", "3", "4", "5", "6", "7", "8", "9">>
UpperChars == <<"A", "B", "C", "D", "E", "F", "G", "H", "I", "J", "K", "L", "M",
                "N", "O", "P", "Q", "R", "S", "T", "U", "V", "W", "X", "Y", "Z">>
LowerChars == <<"a", "b", "c", "d", "e", "f", "g", "h", "i", "j", "k", "l", "m",
                "n", "o", "p", "q", "r", "s", "t", "u", "v", "w", "x", "y", "z">>

Range(f) == {f[i] : i \in DOMAIN f}

Digit == Range(DigitChars)
Upper == Range(UpperChars)
Lower == Range(LowerChars)

\* strings.ToUpper on one ASCII character
ToUpperChar(c) ==
    IF c \in Lower
    THEN UpperChars[CHOOSE i \in DOMAIN LowerChars : LowerChars[i] = c]
    ELSE c

\* strings.ToUpper
ToUpper(s) == [i \in DOMAIN s |-> ToUpperChar(s[i])]

\* strings.Replace(s, old, "", 1): only the first occurrence is removed
ReplaceFirst(s, old) ==
    IF \E i \in DOMAIN s : s[i] = old
    THEN LET k == CHOOSE i \in DOMAIN s : s[i] = old /\ \A j \in 1..(i - 1) : s[j] # old
         IN  SubSeq(s, 1, k - 1) \o SubSeq(s, k + 1, Len(s))
    ELSE s

\* strings.ReplaceAll(s, old, "") for a one-character old
RECURSIVE ReplaceAll(_, _)
ReplaceAll(s, old) ==
    IF s = <<>> THEN <<>>
    ELSE IF Head(s) = old THEN ReplaceAll(Tail(s), old)
    ELSE <<Head(s)>> \o ReplaceAll(Tail(s), old)

\* strings.HasPrefix
HasPrefix(s, p) == Len(s) >= Len(p) /\ SubSeq(s, 1, Len(p)) = p

----------------------------------------------------------------------------
(* Regular expressions (package regexp), restricted to the forms used *)

Seg(cs, lo, hi) == [cs |-> cs, lo |-> lo, hi |-> hi]
\* \d{n}, \d{lo,hi}
D(n) == <<Seg(Digit, n, n)>>
DR(lo, hi) == <<Seg(Digit, lo, hi)>>
\* a literal string
Lit(str) == [i \in DOMAIN str |-> Seg({str[i]}, 1, 1)]
\* [cs]{n}, [cs]{lo,hi}, [cs]?
Cls(cs, n) == <<Seg(cs, n, n)>>
ClsR(cs, lo, hi) == <<Seg(cs, lo, hi)>>
Opt(cs) == <<Seg(cs, 0, 1)>>

\* positions of s that the first k segments of alt can end at, from position 0
RECURSIVE Ends(_, _, _)
Ends(s, alt, k) ==
    IF k = 0 THEN {0}
    ELSE LET seg == alt[k]
         IN  UNION { { p + n : n \in { m \in seg.lo .. seg.hi :
                                        /\ p + m <= Len(s)
                                        /\ \A i \in (p + 1) .. (p + m) : s[i] \in seg.cs } }
                     : p \in Ends(s, alt, k - 1) }

\* regexp.MatchString for an anchored pattern
MatchString(re, s) == \E alt \in re : Len(s) \in Ends(s, alt, Len(alt))

----------------------------------------------------------------------------
(* Carriers (pkg/common.go) *)

CarrierFedEx == "FedEx"
CarrierUPS == "UPS"
CarrierUSPS == "USPS"
CarrierDHL == "DHL"
CarrierAmazon == "Amazon"
CarrierOnTrac == "OnTrac"
CarrierLaserShip == "LaserShip"
CarrierUnknown == "Unknown"

Carrier == {CarrierFedEx, CarrierUPS, CarrierUSPS, CarrierDHL, CarrierAmazon,
            CarrierOnTrac, CarrierLaserShip, CarrierUnknown}

\* the outcome of a call that does not return: a run-time panic
Panic == "panic"

AlnumUpper == Upper \cup Digit

----------------------------------------------------------------------------
(* isDHL *)

dhlPatterns == <<
    {D(10)},                                                  \* ^\d{10}$
    {Lit(<<"J", "J", "D">>) \o Opt({"0"}) \o Opt({"1"}) \o DR(10, 11)},
                                                              \* ^JJD0?1?\d{10,11}$
    {Lit(<<"1">>) \o D(9)},                                   \* ^1\d{9}$
    {D(4) \o Opt({"-", " "}) \o D(4) \o Opt({"-", " "}) \o D(2)},
                                                              \* ^\d{4}[- ]?\d{4}[- ]?\d{2}$
    {Cls(Upper, 3) \o D(7)},                                  \* ^[A-Z]{3}\d{7}$
    {Cls(Upper, 5) \o D(10)},                                 \* ^[A-Z]{5}\d{10}$
    {Lit(<<"4", "2", "0">>) \o D(27)},                        \* ^420\d{27}$
    {Lit(<<"J", "J", "D">>) \o D(18), D(20)},                 \* ^(JJD\d{18}|\d{20})$
    {DR(10, 11)}                                              \* ^\d{10,11}$
>>

dhlOverlappingPatterns == {
    {Cls({"5", "6", "7", "8", "9"}, 1) \o D(9)}               \* ^[5-9]\d{9}$
}

\* int(c - '0') for a digit character
DigitVal(c) == (CHOOSE i \in DOMAIN DigitChars : DigitChars[i] = c) - 1

\* isDHL evaluates trackingNumber[0] (line 259); it panics on an empty string
isDHLPanics(tn) ==
    /\ \A i \in DOMAIN dhlPatterns : ~MatchString(dhlPatterns[i], tn)
    /\ \E p \in dhlOverlappingPatterns : MatchString(p, tn) /\ Len(tn) = 0

\* isDHL rejecting every 10- and 11-character match, the 1Z test forgotten
isDHLNoPrefixTest(tn) ==
    IF \E i \in DOMAIN dhlPatterns : MatchString(dhlPatterns[i], tn)
    THEN ~(Len(tn) = 10 \/ Len(tn) = 11)
    ELSE \E p \in dhlOverlappingPatterns :
            /\ MatchString(p, tn)
            /\ Len(tn) > 0
            /\ DigitVal(tn[1]) >= 5

isDHL(tn) ==
    IF \E i \in DOMAIN dhlPatterns : MatchString(dhlPatterns[i], tn)
    THEN \* the first matching pattern decides
         ~((Len(tn) = 10 \/ Len(tn) = 11) /\ HasPrefix(tn, <<"1", "Z">>))
    ELSE \E p \in dhlOverlappingPatterns :
            /\ MatchString(p, tn)
            /\ Len(tn) > 0
            /\ DigitVal(tn[1]) >= 5

----------------------------------------------------------------------------
(* isUPS *)

upsPatterns == <<
    {Lit(<<"1", "Z">>) \o Cls(AlnumUpper, 6) \o D(2) \o D(8)},  \* ^1Z[A-Z0-9]{6}\d{2}\d{8}$
    {Lit(<<"M", "I">>) \o DR(15, 22),
     Lit(<<"Y", "W">>) \o DR(15, 22),
     Lit(<<"U", "P">>) \o DR(15, 22)},                        \* ^(MI|YW|UP)\d{15,22}$
    {Lit(<<"H">>) \o DR(9, 10)},                              \* ^H\d{9,10}$
    {Lit(<<"T">>) \o D(10)},                                  \* ^T\d{10}$
    {D(9)},                                                   \* ^\d{9}$
    {Lit(<<"9", "2">>) \o DR(17, 20)},                        \* ^92\d{17,20}$
    {Cls(Digit, 12)},                                         \* ^[0-9]{12}$
    {Cls(Digit, 18)}                                          \* ^[0-9]{18}$
>>

\* isUPS taking every matching 92-prefixed number, the length test forgotten
isUPSNoLengthTest(tn) ==
    \E i \in DOMAIN upsPatterns : MatchString(upsPatterns[i], tn)

isUPS(tn) ==
    IF \E i \in DOMAIN upsPatterns : MatchString(upsPatterns[i], tn)
    THEN \* the first matching pattern decides
         IF HasPrefix(tn, <<"9", "2">>) THEN Len(tn) = 20
         ELSE IF HasPrefix(tn, <<"1", "Z">>) THEN TRUE
         ELSE IF Len(tn) = 9 /\ MatchString({D(9)}, tn) THEN TRUE
         ELSE TRUE
    ELSE FALSE

----------------------------------------------------------------------------
(* isFedEx *)

fedexPatterns == <<
    {D(12)},                                                  \* ^\d{12}$
    {Lit(<<"9", "6">>) \o D(13), Lit(<<"9", "8">>) \o D(13)}, \* ^(96|98)\d{13}$
    {Lit(<<"9", "2">>) \o D(18)},                             \* ^92\d{18}$
    {D(12)},                                                  \* ^\d{12}$
    {Lit(<<"9", "6">>) \o D(20)},                             \* ^96\d{20}$
    {Lit(<<"9">>) \o D(11)},                                  \* ^9\d{11}$
    {D(15)},                                                  \* ^\d{15}$
    {Cls(AlnumUpper, 14)},                                    \* ^[A-Z0-9]{14}$
    {D(18)},                                                  \* ^\d{18}$
    {Lit(<<"D", "T">>) \o D(12)}                              \* ^DT\d{12}$
>>

isFedEx(tn) ==
    IF \E i \in DOMAIN fedexPatterns : MatchString(fedexPatterns[i], tn)
    THEN \* every branch under the first match returns true
         IF Len(tn) = 12 /\ MatchString({D(12)}, tn) THEN TRUE
         ELSE IF Len(tn) = 18 /\ MatchString({D(18)}, tn) THEN TRUE
         ELSE IF HasPrefix(tn, <<"9", "2">>) /\ Len(tn) = 20 THEN TRUE
         ELSE IF HasPrefix(tn, <<"9", "6">>) \/ HasPrefix(tn, <<"9", "8">>) THEN TRUE
         ELSE IF HasPrefix(tn, <<"D", "T">>) THEN TRUE
         ELSE TRUE
    ELSE FALSE

----------------------------------------------------------------------------
(* isUSPS.  formats and specialCases are Go maps: the order in which range *)
(* visits them is not fixed, so isUSPS is the set of results it can give.  *)

F(re, name) == [re |-> re, name |-> name]
L2(a, b) == Lit(<<a, b>>)
L3(a, b, c) == Lit(<<a, b, c>>)
L4(a, b, c, d) == Lit(<<a, b, c, d>>)

uspsFormats == {
    F({L2("9", "1") \o D(18)}, "USPS GS1-128 (91)"),                 \* ^91\d{18}$
    F({L2("9", "2") \o Cls({"1", "2", "3", "4", "5", "6", "7"}, 1) \o D(17)},
      "USPS GS1-128 (92)"),                                         \* ^92[1-7]\d{17}$
    F({L2("9", "3") \o D(18)}, "USPS GS1-128 (93)"),                 \* ^93\d{18}$
    F({L2("9", "4") \o D(18)}, "USPS GS1-128 (94)"),                 \* ^94\d{18}$
    F({L2("9", "1") \o D(20)}, "USPS 22-digit"),                     \* ^91\d{20}$
    F({L3("4", "2", "0") \o D(5) \o L2("9", "1") \o D(18)}, "USPS ZIP+GS1"),
                                                                    \* ^420\d{5}91\d{18}$
    F({L3("4", "2", "0") \o D(5) \o Cls(Digit, 2) \o D(12)}, "USPS ZIP+STI"),
                                                                    \* ^420\d{5}[0-9]{2}\d{12}$
    F({L3("4", "2", "0") \o D(5) \o L2("9", "1") \o D(27)}, "USPS Electronic Shipping"),
                                                                    \* ^420\d{5}91\d{27}$
    F({Cls(Upper, 2) \o D(9) \o L2("U", "S")}, "USPS International"), \* ^[A-Z]{2}\d{9}US$
    F({D(4) \o D(9)}, "USPS 13-char Domestic"),                      \* ^\d{4}\d{9}$
    F({Cls(Upper, 2) \o D(9) \o Cls(AlnumUpper, 9)}, "USPS 20-char International"),
                                                                    \* ^[A-Z]{2}\d{9}[A-Z0-9]{9}$
    F({Lit(<<"E">>) \o Cls(Upper, 1) \o D(9) \o Cls(Upper, 1)}, "USPS Priority Express A"),
                                                                    \* ^E[A-Z]\d{9}[A-Z]$
    F({Lit(<<"E">>) \o Cls(Upper, 1) \o D(9)}, "USPS Priority Express B"),
                                                                    \* ^E[A-Z]\d{9}$
    F({L4("9", "4", "0", "7") \o D(16)}, "USPS Certified Mail"),     \* ^9407\d{16}$
    F({L4("9", "2", "0", "8") \o D(16)}, "USPS Registered Mail"),    \* ^9208\d{16}$
    F({L2("E", "C") \o D(9) \o Cls(Upper, 2)}, "USPS Express Int'l"), \* ^EC\d{9}[A-Z]{2}$
    F({Cls({"1", "2", "3", "4"}, 1) \o DR(9, 10)}, "USPS Money Order"),
                                                                    \* ^[1-4]\d{9,10}$
    F({Cls(Upper, 2) \o D(9)}, "USPS Military Mail"),                \* ^[A-Z]{2}\d{9}$
    F({Cls(Upper, 2) \o D(9) \o Cls(Upper, 2)}, "USPS Int'l Inbound"),
                                                                    \* ^[A-Z]{2}\d{9}[A-Z]{2}$
    F({L4("9", "2", "0", "2") \o D(16)}, "USPS Signature Conf A"),   \* ^9202\d{16}$
    F({L4("9", "2", "0", "2") \o D(20)}, "USPS Signature Conf B"),   \* ^9202\d{20}$
    F({L2("0", "3") \o D(18)}, "USPS Standard Post"),                \* ^03\d{18}$
    F({L4("9", "3", "0", "3") \o D(16)}, "USPS COD"),                \* ^9303\d{16}$
    F({L2("9", "2") \o Cls(Digit, 1) \o Cls(Digit, 1) \o D(16)}, "USPS Insured Mail"),
                                                                    \* ^92[0-9][0-9]\d{16}$
    F({L4("9", "4", "0", "0") \o D(16)}, "USPS First-Class"),        \* ^9400\d{16}$
    F({L4("9", "5", "9", "0") \o D(16)}, "USPS Return Receipt"),     \* ^9590\d{16}$
    F({L2("9", "2") \o D(20)}, "USPS Unknown"),                      \* ^92\d{20}$
    F({L2("9", "3") \o DR(18, 20)}, "USPS Unknown"),                 \* ^93\d{18,20}$
    F({L2("9", "4") \o DR(18, 20)}, "USPS Unknown"),                 \* ^94\d{18,20}$
    F({L2("9", "5") \o DR(18, 20)}, "USPS Unknown")                  \* ^95\d{18,20}$
}

\* the verify functions of specialCases
uspsVerify13(tn) == ~HasPrefix(tn, <<"1", "Z">>)
\* the IMpb verify function without its test of the leading 9
uspsVerifyIMpbNoLeading9(tn) ==
    ~HasPrefix(tn, <<"9", "6">>) /\ ~HasPrefix(tn, <<"9", "8">>)

uspsVerifyIMpb(tn) ==
    HasPrefix(tn, <<"9">>) /\ ~HasPrefix(tn, <<"9", "6">>) /\ ~HasPrefix(tn, <<"9", "8">>)

uspsSpecialCases(tn) == {
    [re |-> {D(13)}, verify |-> uspsVerify13(tn)],                  \* ^\d{13}$
    [re |-> {ClsR(AlnumUpper, 24, 31)}, verify |-> uspsVerifyIMpb(tn)]
                                                                    \* ^[A-Z0-9]{24,31}$
}

\* what the loop body over formats does on a matching pattern: TRUE when it returns
uspsFormatAccepts(tn) ==
    IF HasPrefix(tn, <<"9", "2">>)
    THEN CASE Len(tn) = 20 -> \/ HasPrefix(tn, <<"9", "2", "0", "5">>)
                              \/ HasPrefix(tn, <<"9", "2", "0", "7">>)
                              \/ HasPrefix(tn, <<"9", "2", "0", "8">>)
                              \/ HasPrefix(tn, <<"9", "2", "1", "0">>)
           [] Len(tn) = 22 -> TRUE
           [] OTHER -> FALSE
    ELSE TRUE

\* the possible results <<format name, valid>> of isUSPS
isUSPS(tn) ==
    LET hits == {f \in uspsFormats : MatchString(f.re, tn) /\ uspsFormatAccepts(tn)}
        special == {c \in uspsSpecialCases(tn) : MatchString(c.re, tn) /\ c.verify}
    IN  IF hits # {} THEN {<<f.name, TRUE>> : f \in hits}
        ELSE IF special # {} THEN {<<"USPS Special Format", TRUE>>}
        ELSE {<<"", FALSE>>}

----------------------------------------------------------------------------
(* DetectCarrier (package envoy).  The call of the external library         *)
(* parcel.Track and the Printf of its result do not take part in the result *)
(* and are left out.  The value is the set of results the call can give.    *)

\* the normalisation without the upper-casing
NormalizeNoUpper(trackingNumber) ==
    ReplaceAll(ReplaceAll(trackingNumber, " "), "-")

Normalize(trackingNumber) ==
    ToUpper(ReplaceAll(ReplaceAll(trackingNumber, " "), "-"))

DetectCarrier(trackingNumber) ==
    LET tn == Normalize(trackingNumber)
    IN  IF isDHLPanics(tn) THEN {Panic}
        ELSE IF isDHL(tn) THEN {CarrierDHL}
        ELSE IF isUPS(tn) THEN {CarrierUPS}
        ELSE IF isFedEx(tn) THEN {CarrierFedEx}
        ELSE {IF r[2] THEN CarrierUSPS ELSE CarrierUnknown : r \in isUSPS(tn)}

(* DetectCarrier (package service), the regex-table variant kept in        *)
(* pkg/common.go: trackingPatterns is a Go map, ranged over in any order.   *)

trackingPatterns == {
    [carrier |-> CarrierFedEx, re |-> {D(12), D(15), D(20)}], \* ^\d{12}$|^\d{15}$|^\d{20}$
    [carrier |-> CarrierUPS,
     re |-> {L2("1", "Z") \o Cls(Lower \cup Upper \cup Digit, 16), D(18)}],
                                                              \* ^1Z[a-zA-Z0-9]{16}$|^\d{18}$
    [carrier |-> CarrierUSPS, re |-> {D(20), D(22)}],         \* ^\d{20}$|^\d{22}$
    [carrier |-> CarrierDHL, re |-> {D(10)}]                  \* ^\d{10}$
}

usps20DigitPrefixes == << <<"9", "4">>, <<"9", "2">>, <<"9", "3">>, <<"9", "5">> >>

\* the table variant without the test of the length 20 before the loop
DetectCarrierTableNoLengthTest(trackingNumber) ==
    LET tn == ReplaceAll(ReplaceAll(trackingNumber, " "), "-")
        hits == {p.carrier : p \in {q \in trackingPatterns : MatchString(q.re, tn)}}
    IN  IF hits # {} THEN hits ELSE {CarrierUnknown}

DetectCarrierTable(trackingNumber) ==
    LET tn == ReplaceAll(ReplaceAll(trackingNumber, " "), "-")
        hits == {p.carrier : p \in {q \in trackingPatterns : MatchString(q.re, tn)}}
    IN  IF Len(tn) = 20
        THEN IF \E i \in DOMAIN usps20DigitPrefixes : HasPrefix(tn, usps20DigitPrefixes[i])
             THEN {CarrierUSPS}
             ELSE {CarrierFedEx}
        ELSE IF hits # {} THEN hits
        ELSE {CarrierUnknown}

----------------------------------------------------------------------------
(* Parcels (pkg/common.go).  A nil pointer is the empty sequence, a non-nil *)
(* one a sequence of one element; a nil error is the empty string.          *)

NoError == ""

ParcelEventType ==
    [OrderConfirmed |-> "ORDER CONFIRMED", AssertOnTime |-> "EXPECTED ON TIME",
     PickedUp |-> "PICKED UP", Departed |-> "DEPARTED", Processing |-> "PROCESSING",
     Arrived |-> "ARRIVED", OnVehicle |-> "ON DELIVERY VEHICLE",
     OutForDelivery |-> "OUT FOR DELIVERY", Delivered |-> "DELIVERED",
     Delayed |-> "DELAYED", ParcelHeld |-> "HELD",
     AwaitingCustomerAction |-> "AWAITING CUSTOMER ACTION",
     AwaitingCustomerPickup |-> "AWAITING CUSTOMER PICKUP",
     TransferredToLocal |-> "TRANSFERRED TO LOCAL", Undeliverable |-> "UNDELIVERABLE",
     ReturnedToSender |-> "RETURNED TO SENDER", Unknown |-> "UNKNOWN"]

ParcelEventTypes == {ParcelEventType[k] : k \in DOMAIN ParcelEventType}

NewParcel(name, c, trackingNumber) ==
    [Name |-> name, Carrier |-> c, TrackingNumber |-> trackingNumber,
     Data |-> <<>>, Error |-> NoError]

\* parcel.Data = &ParcelData{} followed by the appends to Data.Events
WithData(p, events) == [p EXCEPT !.Data = <<[Events |-> events]>>]

HasData(p) == p.Data # <<>>
HasError(p) == p.Error # NoError

RECURSIVE LastEventFrom(_, _, _)
LastEventFrom(events, i, lastEvent) ==
    IF i > Len(events) THEN lastEvent
    ELSE LastEventFrom(events, i + 1,
            IF lastEvent = <<>> \/ events[i].Timestamp > lastEvent[1].Timestamp
            THEN <<events[i]>>
            ELSE lastEvent)

LastTrackingEvent(p) ==
    IF ~HasData(p) THEN <<>>
    ELSE IF Len(p.Data[1].Events) = 0 THEN <<>>
    ELSE LastEventFrom(p.Data[1].Events, 1, <<>>)

----------------------------------------------------------------------------
(* The carrier clients (pkg/fedex, pkg/ups, pkg/usps).  What the network    *)
(* answers is the environment's choice: net.auth for the token request,     *)
(* net.post for the one FedEx tracking request, net.fetch[i] for the        *)
(* request of the i-th tracking number, net.order for the order in which    *)
(* the USPS goroutines append.                                              *)

SupportedCarriers == {CarrierFedEx, CarrierUPS, CarrierUSPS}

\* 200 with events; 200 with one event more; 200 without events; the transport fails; a status other than
\* 200 with a JSON error body; 200 with a body that is not JSON
FetchOutcomes == {"ok", "more", "noevents", "transport", "status", "badjson"}
FetchFailures == {"transport", "status", "badjson"}

\* an event as the clients build it from one of the answer
ResponseEvent(timestamp, type) ==
    [Timestamp |-> timestamp, Type |-> type, Description |-> "d", Location |-> "L"]

\* the events of a response that has events: carriers list the newest first
ResponseEvents(outcome) ==
    CASE outcome = "ok" -> <<ResponseEvent(2, ParcelEventType.Arrived),
                             ResponseEvent(1, ParcelEventType.OrderConfirmed)>>
      [] outcome = "more" -> <<ResponseEvent(3, ParcelEventType.Delivered),
                               ResponseEvent(2, ParcelEventType.Arrived),
                               ResponseEvent(1, ParcelEventType.OrderConfirmed)>>
      [] OTHER -> <<>>

\* s.Token == nil || !s.Token.IsValid(); a token is "nil", "valid" or "expired"
NeedsAuth(token) == token = "nil" \/ token # "valid"

\* the answers to a token request: a token; the transport fails; a status that
\* is not a success, with a JSON body; a body that is not JSON; a token whose
\* status is not 'approved' or whose scope lacks 'tracking' (USPS); an
\* expires_in that is not a number (UPS)
AuthFailures == {"transport", "status", "badjson", "unapproved", "noscope", "badexpiry"}
AuthAnswers == {"ok"} \cup AuthFailures

\* the failures each client can meet
AuthFailuresOf(c) ==
    CASE c = CarrierFedEx -> {"transport", "status", "badjson"}
      [] c = CarrierUSPS -> {"transport", "status", "badjson", "unapproved", "noscope"}
      [] c = CarrierUPS -> {"transport", "status", "badjson", "badexpiry"}

\* what Reauthenticate returns and the token the client holds afterwards
AuthResult(err, token) == [err |-> err, token |-> token]

\* FedexService.Reauthenticate: s.Token = &token is the last statement
FedexReauthenticate(token, answer) ==
    IF answer = "transport" THEN AuthResult("auth", token)         \* s.Client.Do
    ELSE IF answer = "status" THEN AuthResult("auth", token)       \* res.StatusCode
    ELSE IF answer # "ok" THEN AuthResult("auth", token)           \* json.Unmarshal
    ELSE AuthResult(NoError, "valid")

\* USPSService.Reauthenticate: Token.UnmarshalJSON fills a local token and
\* fails on the status and on the scope before it fills anything
USPSReauthenticateSetsNil(token, answer) ==
    IF answer # "ok" THEN AuthResult("auth", "nil") ELSE AuthResult(NoError, "valid")

USPSReauthenticate(token, answer) ==
    IF answer = "transport" THEN AuthResult("auth", token)
    ELSE IF answer = "status" THEN AuthResult("auth", token)
    ELSE IF answer \in {"badjson", "unapproved", "noscope"} THEN AuthResult("auth", token)
    ELSE IF answer # "ok" THEN AuthResult("auth", token)
    ELSE AuthResult(NoError, "valid")

\* UPSService.Reauthenticate: GetAccessToken gives an Error for a transport
\* error, a body that is not JSON and a status outside 200..299; then
\* strconv.Atoi of expires_in; s.Token is assigned after both
UPSReauthenticate(token, answer) ==
    IF answer \in {"transport", "badjson", "status"} THEN AuthResult("auth", token)
    ELSE IF answer # "ok" THEN AuthResult("auth", token)           \* strconv.Atoi
    ELSE AuthResult(NoError, "valid")

Reauthenticate(c, token, answer) ==
    CASE c = CarrierUPS -> UPSReauthenticate(token, answer)
      [] c = CarrierUSPS -> USPSReauthenticate(token, answer)
      [] c = CarrierFedEx -> FedexReauthenticate(token, answer)

\* the first statement of Track without the test of the token's expiry
CheckTokenNilOnly(c, token, answer) ==
    IF token = "nil"
    THEN LET a == Reauthenticate(c, token, answer)
         IN  [err |-> a.err, token |-> a.token, auths |-> 1]
    ELSE [err |-> NoError, token |-> token, auths |-> 0]

\* the first statement of Track in all three clients:
\* if s.Token == nil || !s.Token.IsValid() { if err := s.Reauthenticate(); ... }
\* gives the error, the token held afterwards and the number of token requests
CheckToken(c, token, answer) ==
    IF NeedsAuth(token)
    THEN LET a == Reauthenticate(c, token, answer)
         IN  [err |-> a.err, token |-> a.token, auths |-> 1]
    ELSE [err |-> NoError, token |-> token, auths |-> 0]

\* what one Track call gives and does: the returned parcels and error, whether
\* it panicked, the token the client holds afterwards, and the number of
\* tracking requests it sent; with them the token held when it was called,
\* the number of token requests and the token its tracking requests carried
TrackResult(parcels, err, panicked, token, sent) ==
    [parcels |-> parcels, err |-> err, panicked |-> panicked, token |-> token,
     sent |-> sent, held |-> "nil", auths |-> 0, bearer |-> "none"]

\* the rest of a Track call r after the check chk of the token held
\* "Authorization": "Bearer " + s.Token.Value is read after the check
Checked(r, held, chk) ==
    [r EXCEPT !.token = chk.token, !.held = held, !.auths = chk.auths,
              !.bearer = IF r.sent > 0 THEN chk.token ELSE "none"]

\* UPSService.Track: one request after the other, the first failure returns
RECURSIVE UPSTrackLoop(_, _, _, _)
UPSTrackLoop(trackingNumbers, fetch, i, parcels) ==
    IF i > Len(trackingNumbers) THEN TrackResult(parcels, NoError, FALSE, "valid", i - 1)
    ELSE IF fetch[i] \in FetchFailures THEN TrackResult(<<>>, fetch[i], FALSE, "valid", i)
    ELSE UPSTrackLoop(trackingNumbers, fetch, i + 1,
            Append(parcels,
                   WithData(NewParcel(trackingNumbers[i], CarrierUPS, trackingNumbers[i]),
                            ResponseEvents(fetch[i]))))

UPSTrackNoAuthTest(token, trackingNumbers, net) ==
    Checked(UPSTrackLoop(trackingNumbers, net.fetch, 1, <<>>), token,
            [err |-> NoError, token |-> token, auths |-> 0])

UPSTrack(token, trackingNumbers, net) ==
    LET chk == CheckToken(CarrierUPS, token, net.auth)
    IN  Checked(IF chk.err # NoError THEN TrackResult(<<>>, chk.err, FALSE, token, 0)
                ELSE UPSTrackLoop(trackingNumbers, net.fetch, 1, <<>>),
                token, chk)

\* USPSService.TrackRaw: one goroutine per tracking number.  A transport error
\* leaves res nil and res.Body panics; an error body decodes to an empty
\* TrackingResponse; a body that is not JSON is logged and dropped.
RECURSIVE USPSResponses(_, _, _, _)
USPSResponses(trackingNumbers, fetch, order, k) ==
    IF k > Len(order) THEN <<>>
    ELSE LET i == order[k]
             rest == USPSResponses(trackingNumbers, fetch, order, k + 1)
         IN  IF fetch[i] = "badjson" THEN rest
             ELSE <<[TrackingNumber |-> IF fetch[i] = "status" THEN <<>> ELSE trackingNumbers[i],
                     TrackingEvents |-> ResponseEvents(fetch[i])]>> \o rest

USPSTrack(token, trackingNumbers, net) ==
    LET chk == CheckToken(CarrierUSPS, token, net.auth)
        responses == USPSResponses(trackingNumbers, net.fetch, net.order, 1)
    IN  Checked(
            IF chk.err # NoError THEN TrackResult(<<>>, chk.err, FALSE, token, 0)
            ELSE IF \E i \in DOMAIN trackingNumbers : net.fetch[i] = "transport"
            THEN TrackResult(<<>>, NoError, TRUE, "valid", Len(trackingNumbers))
            ELSE TrackResult(
                    [j \in DOMAIN responses |->
                        WithData(NewParcel(responses[j].TrackingNumber, CarrierUSPS,
                                           responses[j].TrackingNumber),
                                 responses[j].TrackingEvents)],
                    NoError, FALSE, "valid", Len(trackingNumbers)),
            token, chk)

\* FedexService.Track: one request for the whole batch, one CompleteTrackResult
\* for each tracking number in the answer
FedexTrack(token, trackingNumbers, net) ==
    LET chk == CheckToken(CarrierFedEx, token, net.auth)
    IN  Checked(
            IF chk.err # NoError THEN TrackResult(<<>>, chk.err, FALSE, token, 0)
            ELSE IF net.post \in FetchFailures
            THEN TrackResult(<<>>, net.post, FALSE, "valid", 1)
            ELSE TrackResult(
                    [i \in DOMAIN trackingNumbers |->
                        WithData(NewParcel(trackingNumbers[i], CarrierFedEx, trackingNumbers[i]),
                                 ResponseEvents(net.fetch[i]))],
                    NoError, FALSE, "valid", 1),
            token, chk)

\* svc.Track through the Service interface
Track(c, token, trackingNumbers, net) ==
    CASE c = CarrierUPS -> UPSTrack(token, trackingNumbers, net)
      [] c = CarrierUSPS -> USPSTrack(token, trackingNumbers, net)
      [] c = CarrierFedEx -> FedexTrack(token, trackingNumbers, net)

Orders(n) == {f \in [1..n -> 1..n] : \A i, j \in 1..n : i # j => f[i] # f[j]}

\* what the network can answer to one Track call of a client holding token:
\* no token request is made with a valid token, and no tracking request
\* after a token request that failed
Nets(c, token, trackingNumbers) ==
    LET n == Len(trackingNumbers)
        unsent == [auth : AuthFailuresOf(c), post : {"unsent"}, fetch : {[i \in 1..n |-> "unsent"]},
                   order : {[i \in 1..n |-> i]}]
        sent == [auth : {IF NeedsAuth(token) THEN "ok" ELSE "unsent"},
                 post : IF c = CarrierFedEx THEN {"ok"} \cup FetchFailures ELSE {"ok"},
                 fetch : [1..n -> IF c = CarrierFedEx THEN {"ok", "more", "noevents"}
                                  ELSE FetchOutcomes],
                 order : IF c = CarrierUSPS THEN Orders(n) ELSE {[i \in 1..n |-> i]}]
    IN  IF NeedsAuth(token) THEN unsent \cup sent ELSE sent

----------------------------------------------------------------------------
(* The inputs of the classifier *)

\* the longest tracking number, separators not counted
MaxLen == 30
\* the most separators typed into one tracking number
MaxSeps == 2

\* the w decimal digits of v
Dec(v, w) == [i \in 1..w |-> DigitChars[((v \div (10 ^ (w - i))) % 10) + 1]]
Rep(c, n) == [i \in 1..n |-> c]

\* all-numeric strings: every two-digit prefix, every four-digit prefix 92xx and
\* the four-digit prefixes named by a pattern, padded with zeros to every length
NumericHeads ==
    {Dec(v, 2) : v \in 0..99} \cup {Dec(9200 + v, 4) : v \in 0..99}
    \cup {Dec(v, 4) : v \in {9303, 9400, 9407, 9590, 4201, 1234}}

NumericInputs ==
    {SubSeq(h \o Rep(d, MaxLen), 1, n) : h \in NumericHeads, d \in {"0", "9"}, n \in 0..MaxLen}

\* strings with letters: a prefix, then a run of one character and a run of another
LetterHeads ==
    {<<"1", "Z">>, <<"1", "z">>, <<"J", "J", "D">>, <<"M", "I">>, <<"H">>, <<"T">>,
     <<"D", "T">>, <<"E", "C">>, <<"A", "B">>}

LetterInputs ==
    {h \o Rep(ab[1], n1) \o Rep(ab[2], n2) :
        h \in LetterHeads,
        ab \in {<<"0", "A">>, <<"A", "0">>, <<"0", "z">>, <<"z", "0">>},
        n1 \in 0..16, n2 \in 0..16}

\* the tracking numbers of TestDetectCarrier
TestInputs == {
    Dec(1234567890, 10) \o Dec(12, 2),                          \* 123456789012
    <<"1", "Z">> \o Dec(1234567890, 10) \o Dec(123456, 6),      \* 1Z1234567890123456
    Dec(1234567890, 10),                                        \* 1234567890
    Dec(95001111, 8) \o Rep("1", 12),                           \* 95001111111111111111
    Dec(1234567890, 10) \o Dec(1234567890, 10),                 \* 12345678901234567890
    Dec(92612903, 8) \o Dec(39741308, 8) \o Dec(689554, 6),     \* 9261290339741308689554
    <<"E", "C">> \o Dec(123456789, 9) \o <<"U", "S">>,          \* EC123456789US
    <<"J", "J", "D">> \o Dec(1234567890, 10)                    \* JJD1234567890
}

\* 123456789012345678901234567890
Thirty == Dec(1234567890, 10) \o Dec(1234567890, 10) \o Dec(1234567890, 10)

Inputs == NumericInputs \cup LetterInputs \cup TestInputs \cup {Thirty}

Separators == {" ", "-"}

\* s with every space and hyphen removed
Strip(s) == SelectSeq(s, LAMBDA c : c \notin Separators)

NumSeps(s) == Len(s) - Len(Strip(s))

InsertAt(s, p, c) == SubSeq(s, 1, p) \o <<c>> \o SubSeq(s, p + 1, Len(s))

----------------------------------------------------------------------------
(* The classifier as a state machine: a tracking number is typed in, with  *)
(* separators anywhere, and handed to DetectCarrier.                        *)

NoCarrier == "-"

NoNet == [auth |-> "unsent", post |-> "unsent", fetch |-> <<>>, order |-> <<>>]

\* no classification, no client and no syncParcels call under way
ClassifyIdle == raw = <<>> /\ carrier = NoCarrier /\ cpc = "idle"
TrackIdle ==
    /\ svc = [carrier |-> CarrierUnknown, Token |-> "nil"]
    /\ tbatch = <<>>
    /\ tnet = NoNet
    /\ tres = TrackResult(<<>>, NoError, FALSE, "nil", 0)
    /\ tpc = "none"
SyncIdle ==
    /\ args = <<>>
    /\ spc = "none"
    /\ groups = <<>>
    /\ todo = {}
    /\ gor = <<>>
    /\ allParcels = <<>>
    /\ mu = ""
    /\ store = {}
    /\ printed = {}
    /\ wg = 0
FnIdle == fin = <<>> /\ fout = <<>> /\ fpc = "none"
\* no TrackRaw call under way and no client shared by calls
ConIdle == reqs = <<>> /\ callers = <<>>

InitClassify ==
    /\ raw \in Inputs
    /\ carrier = NoCarrier
    /\ cpc = "input"
    /\ TrackIdle
    /\ SyncIdle
    /\ FnIdle
    /\ ConIdle

\* the user types a separator somewhere into one of the test tracking numbers
InsertSeparator ==
    /\ cpc = "input"
    /\ Strip(raw) \in TestInputs
    /\ NumSeps(raw) < MaxSeps
    /\ \E p \in 0..Len(raw), c \in Separators : raw' = InsertAt(raw, p, c)
    /\ UNCHANGED <<carrier, cpc, trkVars, synVars, fnVars, conVars>>

Classify ==
    /\ cpc = "input"
    /\ carrier' \in DetectCarrier(raw)
    /\ cpc' = "done"
    /\ UNCHANGED <<raw, trkVars, synVars, fnVars, conVars>>

ClassifyTable ==
    /\ cpc = "input"
    /\ carrier' \in DetectCarrierTable(raw)
    /\ cpc' = "doneTable"
    /\ UNCHANGED <<raw, trkVars, synVars, fnVars, conVars>>

NextClassify == InsertSeparator \/ Classify \/ ClassifyTable

SpecClassify == InitClassify /\ [][NextClassify]_vars

----------------------------------------------------------------------------
(* One carrier client, used for any number of Track calls *)

\* the longest batch handed to one Track call
MaxBatch == 2

\* tracking numbers that DetectCarrier gives to each carrier
tnUPS1 == <<"1", "Z">> \o Dec(1234567890, 10) \o Dec(123456, 6)    \* 1Z1234567890123456
tnUPS2 == <<"H">> \o Rep("9", 10)                                  \* H9999999999
tnUSPS1 == <<"E", "C">> \o Dec(123456789, 9) \o <<"U", "S">>       \* EC123456789US
tnUSPS2 == Dec(94001234, 8) \o Dec(56789012, 8) \o Dec(345678, 6)  \* 9400123456789012345678
tnFedEx1 == <<"D", "T">> \o Dec(1234567890, 10) \o Dec(12, 2)      \* DT123456789012
tnFedEx2 == Rep("9", 15)                                           \* 999999999999999
tnDHL1 == Dec(1234567890, 10)                                      \* 1234567890
tnNone == <<"X">>

NumbersOf(c) ==
    CASE c = CarrierUPS -> <<tnUPS1, tnUPS2>>
      [] c = CarrierUSPS -> <<tnUSPS1, tnUSPS2>>
      [] c = CarrierFedEx -> <<tnFedEx1, tnFedEx2>>
      [] OTHER -> <<>>

\* the batch of n tracking numbers of carrier c: its numbers in turn
Batch(c, n) == [i \in 1..n |-> NumbersOf(c)[((i - 1) % Len(NumbersOf(c))) + 1]]

InitTrack ==
    /\ svc \in [carrier : SupportedCarriers, Token : {"nil"}]
    /\ tbatch = <<>>
    /\ tnet = NoNet
    /\ tres = TrackResult(<<>>, NoError, FALSE, "nil", 0)
    /\ tpc = "idle"
    /\ ClassifyIdle
    /\ SyncIdle
    /\ FnIdle
    /\ ConIdle

\* svc.Track(trackingNumbers) on the client of carrier c
TrackCall(c) ==
    /\ tpc = "idle"
    /\ \E n \in 0..MaxBatch :
         \E net \in Nets(c, svc.Token, Batch(c, n)) :
            LET r == Track(c, svc.Token, Batch(c, n), net)
            IN  /\ tbatch' = Batch(c, n)
                /\ tnet' = net
                /\ tres' = r
                /\ svc' = [svc EXCEPT !.Token = r.token]
                /\ tpc' = IF r.panicked THEN "panicked" ELSE "returned"
    /\ UNCHANGED <<clsVars, synVars, fnVars, conVars>>

TrackUPS ==
    /\ svc.carrier = CarrierUPS
    /\ TrackCall(CarrierUPS)
TrackUSPS ==
    /\ svc.carrier = CarrierUSPS
    /\ TrackCall(CarrierUSPS)
TrackFedEx ==
    /\ svc.carrier = CarrierFedEx
    /\ TrackCall(CarrierFedEx)

\* time passes the expiration of the held token
TokenExpires ==
    /\ tpc = "idle"
    /\ svc.Token = "valid"
    /\ svc' = [svc EXCEPT !.Token = "expired"]
    /\ UNCHANGED <<tbatch, tnet, tres, tpc, clsVars, synVars, fnVars, conVars>>

\* s.Reauthenticate() called on the client, whatever token it holds
ReauthenticateCall ==
    /\ tpc = "idle"
    /\ \E answer \in {"ok"} \cup AuthFailuresOf(svc.carrier) :
        LET a == Reauthenticate(svc.carrier, svc.Token, answer)
        IN  /\ tbatch' = <<>>
            /\ tnet' = [NoNet EXCEPT !.auth = answer]
            /\ tres' = Checked(TrackResult(<<>>, a.err, FALSE, a.token, 0), svc.Token,
                               [err |-> a.err, token |-> a.token, auths |-> 1])
            /\ svc' = [svc EXCEPT !.Token = a.token]
            /\ tpc' = "reauthenticated"
    /\ UNCHANGED <<clsVars, synVars, fnVars, conVars>>

\* the caller has taken what the call returned: the client, with the token it
\* holds now, is ready for the next call
TakeResult ==
    /\ tpc \in {"returned", "reauthenticated"}
    /\ tbatch' = <<>>
    /\ tnet' = NoNet
    /\ tres' = TrackResult(<<>>, NoError, FALSE, "nil", 0)
    /\ tpc' = "idle"
    /\ UNCHANGED <<svc, clsVars, synVars, fnVars, conVars>>

NextTrack ==
    \/ TrackUPS \/ TrackUSPS \/ TrackFedEx
    \/ TokenExpires \/ ReauthenticateCall \/ TakeResult

SpecTrack == InitTrack /\ [][NextTrack]_vars

\* the last call found no valid token and its token request failed
AuthFailed == tpc \in {"returned", "panicked"} /\ tnet.auth \in AuthFailures

\* C11: a client without a valid token whose authentication call fails returns
\* a non-nil batch-level error and no parcels, and sends no tracking request.
C11_AuthFailureFailsBatch ==
    AuthFailed =>
        /\ tpc = "returned"
        /\ tres.err # NoError
        /\ tres.parcels = <<>>
        /\ tres.sent = 0

\* each of the three clients fails a batch of two on an expired or absent token
C11_Witness == AuthFailed /\ Len(tbatch) = 2 /\ tres.err = "auth"

\* C21: Track makes a token request if and only if it holds no token or an
\* expired one when it is called; a valid token is kept and no token request
\* is made; every tracking request carries the token held after that check.
C21_AuthIffNoValidToken ==
    tpc \in {"returned", "panicked"} =>
        /\ tres.auths = (IF tres.held \in {"nil", "expired"} THEN 1 ELSE 0)
        /\ tres.held = "valid" => tres.token = tres.held
        /\ tres.sent > 0 =>
              /\ tres.bearer = tres.token
              /\ tres.bearer = (IF tres.auths = 1
                                THEN Reauthenticate(svc.carrier, tres.held, tnet.auth).token
                                ELSE tres.held)

\* a batch of two tracked with the token of an earlier call
C21_Witness ==
    /\ tpc = "returned"
    /\ tres.held = "valid" /\ tres.auths = 0
    /\ Len(tbatch) = 2 /\ tres.sent >= 1 /\ tres.bearer = "valid"

\* the last call made a token request and it failed
ReauthFailed ==
    /\ tpc \in {"returned", "panicked", "reauthenticated"}
    /\ tres.auths = 1
    /\ tnet.auth \in AuthFailures

\* C30: a Reauthenticate that fails returns an error and leaves the token the
\* client held as it was; the held token is replaced only by one that was
\* decoded from a successful answer.
C30_FailedReauthKeepsToken ==
    /\ ReauthFailed => tres.err # NoError /\ tres.token = tres.held
    /\ (tpc \in {"returned", "panicked", "reauthenticated"} /\ tres.token # tres.held)
            => tres.auths = 1 /\ tnet.auth = "ok" /\ tres.token = "valid"

\* a client holding an expired token, and one holding a valid one, after a
\* token request that failed
C30_Witness ==
    /\ ReauthFailed
    /\ tres.held \in {"expired", "valid"}
    /\ tnet.auth \in {"unapproved", "noscope", "badexpiry", "badjson"}
    /\ svc.Token = tres.held

Returned == tpc \in {"returned", "panicked"}

\* the positions of the last batch whose request failed
FailedFetches == {i \in DOMAIN tbatch : tnet.fetch[i] \in FetchFailures}

\* the token request, if any, went through and exactly the request of K failed
OnlyFails(K) ==
    /\ Returned
    /\ svc.carrier \in {CarrierUPS, CarrierUSPS}
    /\ tres.err # "auth"
    /\ FailedFetches = {K}
    /\ \A i \in DOMAIN tbatch : i # K => tnet.fetch[i] = "ok"

\* C3: when the fetch of exactly one number K of a batch of N fails, Track
\* returns N parcels, parcel K with a non-nil Error and the other N-1 with
\* populated Data: the failure of K neither aborts nor discards its siblings.
C3_OneFailureIsolated ==
    \A K \in DOMAIN tbatch :
        OnlyFails(K) =>
            /\ tpc = "returned"
            /\ tres.err = NoError
            /\ Len(tres.parcels) = Len(tbatch)
            /\ \E k \in DOMAIN tres.parcels :
                /\ HasError(tres.parcels[k])
                /\ tres.parcels[k].TrackingNumber = tbatch[K]
                /\ \A j \in DOMAIN tres.parcels :
                     j # k => HasData(tres.parcels[j]) /\ ~HasError(tres.parcels[j])

----------------------------------------------------------------------------
(* Properties of the classifier *)

AllDigits(s) == \A i \in DOMAIN s : s[i] \in Digit
Classified == cpc = "done"

\* some pattern of isDHL, isUPS, isFedEx or isUSPS matches the normalized string
MatchesSomePattern(tn) ==
    \/ \E i \in DOMAIN dhlPatterns : MatchString(dhlPatterns[i], tn)
    \/ \E p \in dhlOverlappingPatterns : MatchString(p, tn)
    \/ \E i \in DOMAIN upsPatterns : MatchString(upsPatterns[i], tn)
    \/ \E i \in DOMAIN fedexPatterns : MatchString(fedexPatterns[i], tn)
    \/ \E f \in uspsFormats : MatchString(f.re, tn)
    \/ \E c \in uspsSpecialCases(tn) : MatchString(c.re, tn)

\* C1: DetectCarrier is total: for every input, the empty string included, it
\* returns one of the Carrier values and never panics; it returns Unknown when the
\* normalized string matches no carrier pattern, as for the 30-digit string
\* 123456789012345678901234567890.
C1_Total ==
    Classified =>
        /\ carrier \in Carrier
        /\ ~MatchesSomePattern(Normalize(raw)) => carrier = CarrierUnknown
        /\ Strip(raw) = Thirty => carrier = CarrierUnknown

C1_Witness ==
    /\ Classified
    /\ raw = Thirty
    /\ carrier = CarrierUnknown

\* C27: DetectCarrier is deterministic: whatever order the ranges over the
\* pattern maps take (trackingPatterns; formats and specialCases of isUSPS), an
\* input has one result, also when several patterns match it.
C27_Deterministic ==
    /\ cpc = "done" => DetectCarrier(raw) = {carrier}
    /\ cpc = "doneTable" => DetectCarrierTable(raw) = {carrier}

\* an input that several USPS formats match, classified by either variant
C27_Witness ==
    /\ cpc \in {"done", "doneTable"}
    /\ Cardinality(isUSPS(Normalize(raw))) >= 2
    /\ carrier = CarrierUSPS

\* C4: every 12-digit all-numeric string is classified FedEx.
C4_TwelveDigitsFedEx ==
    (Classified /\ Len(raw) = 12 /\ AllDigits(raw)) => carrier = CarrierFedEx

\* C5: a 20-digit all-numeric string is classified USPS if it begins with 94, 92,
\* 93 or 95, and FedEx otherwise.
C5_TwentyDigits ==
    (Classified /\ Len(raw) = 20 /\ AllDigits(raw)) =>
        carrier = IF \E i \in DOMAIN usps20DigitPrefixes : HasPrefix(raw, usps20DigitPrefixes[i])
                  THEN CarrierUSPS
                  ELSE CarrierFedEx

Alnum == Upper \cup Lower \cup Digit

\* C6 as stated: every string 1Z followed by 16 alphanumeric characters is
\* classified UPS.
C6_Every1ZIsUPS ==
    (/\ Classified
     /\ Len(raw) = 18
     /\ HasPrefix(raw, <<"1", "Z">>)
     /\ \A i \in 3..18 : raw[i] \in Alnum) => carrier = CarrierUPS

\* the UPS format of isUPS: 1Z, six alphanumeric characters, ten digits
Is1ZShipperFormat(s) ==
    /\ Len(s) = 18
    /\ HasPrefix(s, <<"1", "Z">>)
    /\ \A i \in 3..8 : s[i] \in Alnum
    /\ \A i \in 9..18 : s[i] \in Digit

\* C6, amended: every string 1Z followed by six alphanumeric characters and ten
\* digits is classified UPS, whatever pattern of another carrier it could match.
C6_ShipperFormatIsUPS ==
    (Classified /\ Is1ZShipperFormat(raw)) => carrier = CarrierUPS

C6_Witness ==
    /\ Classified
    /\ Is1ZShipperFormat(raw)
    /\ \E i \in 3..8 : raw[i] \in Lower
    /\ carrier = CarrierUPS

\* C7: every 10-digit all-numeric string is classified DHL.
C7_TenDigitsDHL ==
    (Classified /\ Len(raw) = 10 /\ AllDigits(raw)) => carrier = CarrierDHL

C7_Witness ==
    /\ Classified
    /\ raw = Dec(1234567890, 10)
    /\ carrier = CarrierDHL

\* C8: every 22-digit all-numeric string beginning with 91, 92, 93 or 94 is
\* classified USPS; a 92-prefixed one is not taken by the UPS SurePost or the
\* FedEx SmartPost rule checked before the USPS rules.
C8_TwentyTwoDigitsUSPS ==
    (/\ Classified
     /\ Len(raw) = 22
     /\ AllDigits(raw)
     /\ \E d \in {"1", "2", "3", "4"} : HasPrefix(raw, <<"9", d>>)) =>
        /\ carrier = CarrierUSPS
        /\ ~isUPS(Normalize(raw))
        /\ ~isFedEx(Normalize(raw))

C8_Witness ==
    /\ Classified
    /\ Len(raw) = 22
    /\ AllDigits(raw)
    /\ HasPrefix(raw, <<"9", "2">>)
    /\ MatchString(upsPatterns[6], raw)
    /\ carrier = CarrierUSPS

\* C9: DetectCarrier normalizes its input before matching: it returns for s what
\* it returns for s with every space and hyphen removed (in both variants).
C9_SeparatorsIgnored ==
    /\ Classified =>
        /\ DetectCarrier(raw) = DetectCarrier(Strip(raw))
        /\ carrier \in DetectCarrier(Strip(raw))
    /\ cpc = "doneTable" =>
        /\ DetectCarrierTable(raw) = DetectCarrierTable(Strip(raw))
        /\ carrier \in DetectCarrierTable(Strip(raw))

C9_Witness ==
    /\ Classified
    /\ \E i, j \in DOMAIN raw : i + 1 < j /\ raw[i] = " " /\ raw[j] = "-"
    /\ Strip(raw) = <<"1", "Z">> \o Dec(1234567890, 10) \o Dec(123456, 6)
    /\ carrier = CarrierUPS

----------------------------------------------------------------------------
(* syncParcels: the tracking numbers are grouped by carrier, one goroutine  *)
(* per group fetches and merges into allParcels, the caller waits for all.  *)

\* the most tracking numbers given to one call of syncParcels
MaxArgs == 2

SyncNumbers == {tnUPS1, tnUSPS1, tnFedEx1, tnDHL1, tnNone}

SeqsUpTo(S, n) == UNION {[1..k -> S] : k \in 0..n}

\* the assignment without the append
AssignTo(g, c, trackingNumber) ==
    IF c \in DOMAIN g THEN [g EXCEPT ![c] = <<trackingNumber>>]
    ELSE g @@ (c :> <<trackingNumber>>)

\* groups[carrier] = append(groups[carrier], trackingNumber)
AppendTo(g, c, trackingNumber) ==
    IF c \in DOMAIN g THEN [g EXCEPT ![c] = Append(@, trackingNumber)]
    ELSE g @@ (c :> <<trackingNumber>>)

\* the maps groupByCarrier can return, one for each outcome of DetectCarrier
RECURSIVE groupByCarrierFrom(_, _, _)
groupByCarrierFrom(trackingNumbers, i, g) ==
    IF i > Len(trackingNumbers) THEN {g}
    ELSE UNION {groupByCarrierFrom(trackingNumbers, i + 1, AppendTo(g, c, trackingNumbers[i])) :
                    c \in DetectCarrier(trackingNumbers[i])}

groupByCarrier(trackingNumbers) == groupByCarrierFrom(trackingNumbers, 1, <<>>)

\* tns is the trackingNumbers of the loop pass that the closure holds
NoGoroutine == [pc |-> "none", tns |-> <<>>, parcels |-> <<>>, i |-> 0, err |-> NoError]

InitSync ==
    /\ args \in SeqsUpTo(SyncNumbers, MaxArgs)
    /\ spc = "start"
    /\ groups = <<>>
    /\ todo = {}
    /\ gor = [c \in SupportedCarriers |-> NoGoroutine]
    /\ allParcels = <<>>
    /\ mu = ""
    /\ store = {}
    /\ printed = {}
    /\ wg = 0
    /\ ClassifyIdle
    /\ TrackIdle
    /\ FnIdle
    /\ ConIdle

\* groups := groupByCarrier(args); a panic of DetectCarrier ends the process
GroupByCarrier ==
    /\ spc = "start"
    /\ \E g \in groupByCarrier(args) :
        /\ groups' = g
        /\ todo' = DOMAIN g
        /\ spc' = IF Panic \in DOMAIN g THEN "crashed" ELSE "dispatch"
    /\ UNCHANGED <<wg, args, gor, allParcels, mu, store, printed, clsVars, trkVars, fnVars, conVars>>

DispatchWithoutAdd ==
    /\ spc = "dispatch"
    /\ \E c \in todo \cap SupportedCarriers :
        /\ gor' = [gor EXCEPT ![c].pc = "track", ![c].tns = groups[c]]
        /\ todo' = todo \ {c}
    /\ UNCHANGED <<wg, args, spc, groups, allParcels, mu, store, printed, clsVars, trkVars, fnVars, conVars>>

\* one pass of the range loop with a carrier that has a client: wg.Add(1), go func()
DispatchSupported ==
    /\ spc = "dispatch"
    /\ \E c \in todo \cap SupportedCarriers :
        /\ gor' = [gor EXCEPT ![c].pc = "track", ![c].tns = groups[c]]
        /\ todo' = todo \ {c}
    /\ wg' = wg + 1
    /\ UNCHANGED <<args, spc, groups, allParcels, mu, store, printed, clsVars, trkVars, fnVars, conVars>>

\* one pass of the range loop in the default branch: Printf and os.Exit(1)
DispatchUnsupported ==
    /\ spc = "dispatch"
    /\ \E c \in todo \ SupportedCarriers :
        /\ printed' = printed \cup {<<"Unsupported carrier", c>>}
        /\ todo' = todo \ {c}
    /\ spc' = "exited"
    /\ UNCHANGED <<wg, args, groups, gor, allParcels, mu, store, clsVars, trkVars, fnVars, conVars>>

Running == spc = "dispatch"

\* parcels, err := svc.Track(trackingNumbers) on a client made for this call
GoTrack ==
    /\ Running
    /\ \E c \in SupportedCarriers :
        /\ gor[c].pc = "track"
        /\ \E net \in Nets(c, "nil", gor[c].tns) :
            LET r == Track(c, "nil", gor[c].tns, net)
            IN  IF r.panicked
                THEN spc' = "crashed" /\ UNCHANGED <<gor, printed, wg>>
                ELSE IF r.err # NoError
                THEN /\ printed' = printed \cup {<<"Err", c>>}
                     /\ gor' = [gor EXCEPT ![c].pc = "done", ![c].err = r.err]
                     /\ wg' = wg - 1
                     /\ UNCHANGED spc
                ELSE /\ gor' = [gor EXCEPT ![c].pc = "merge", ![c].parcels = r.parcels,
                                           ![c].i = 1]
                     /\ UNCHANGED <<spc, printed, wg>>
    /\ UNCHANGED <<args, groups, todo, allParcels, mu, store, clsVars, trkVars, fnVars, conVars>>

\* the parcels from position i on that pass the test of HasData alone
MergeableWithData(g) == {j \in g.i..Len(g.parcels) : HasData(g.parcels[j])}

\* the parcels from position i on that pass both tests of the loop body
Mergeable(g) ==
    {j \in g.i..Len(g.parcels) :
        HasData(g.parcels[j]) /\ LastTrackingEvent(g.parcels[j]) # <<>>}

Least(S) == CHOOSE j \in S : \A k \in S : j <= k

GoLockWithoutMutex ==
    /\ Running
    /\ \E c \in SupportedCarriers :
        /\ gor[c].pc = "merge"
        /\ Mergeable(gor[c]) # {}
        /\ gor' = [gor EXCEPT ![c].pc = "locked", ![c].i = Least(Mergeable(gor[c]))]
        /\ mu' = c
    /\ UNCHANGED <<wg, args, spc, groups, todo, allParcels, store, printed, clsVars, trkVars, fnVars, conVars>>

\* the loop skips to the next parcel that has data and an event: mu.Lock()
GoLock ==
    /\ Running
    /\ mu = ""
    /\ \E c \in SupportedCarriers :
        /\ gor[c].pc = "merge"
        /\ Mergeable(gor[c]) # {}
        /\ gor' = [gor EXCEPT ![c].pc = "locked", ![c].i = Least(Mergeable(gor[c]))]
        /\ mu' = c
    /\ UNCHANGED <<wg, args, spc, groups, todo, allParcels, store, printed, clsVars, trkVars, fnVars, conVars>>

GoWriteIfAbsent ==
    /\ Running
    /\ \E c \in SupportedCarriers :
        /\ gor[c].pc = "locked"
        /\ LET p == gor[c].parcels[gor[c].i]
           IN  allParcels' = [t \in DOMAIN allParcels \cup {p.TrackingNumber} |->
                                 IF t \in DOMAIN allParcels THEN allParcels[t] ELSE p]
        /\ gor' = [gor EXCEPT ![c].pc = "upsert"]
        /\ mu' = ""
    /\ UNCHANGED <<wg, args, spc, groups, todo, store, printed, clsVars, trkVars, fnVars, conVars>>

\* allParcels[p.TrackingNumber] = p; mu.Unlock()
GoWrite ==
    /\ Running
    /\ \E c \in SupportedCarriers :
        /\ gor[c].pc = "locked"
        /\ LET p == gor[c].parcels[gor[c].i]
           IN  allParcels' = [t \in DOMAIN allParcels \cup {p.TrackingNumber} |->
                                 IF t = p.TrackingNumber THEN p ELSE allParcels[t]]
        /\ gor' = [gor EXCEPT ![c].pc = "upsert"]
        /\ mu' = ""
    /\ UNCHANGED <<wg, args, spc, groups, todo, store, printed, clsVars, trkVars, fnVars, conVars>>

\* UpsertParcel(p): saved or updated; an error that is returned and printed;
\* an error of the lookup, which is fatal
GoUpsert ==
    /\ Running
    /\ \E c \in SupportedCarriers :
        /\ gor[c].pc = "upsert"
        /\ LET p == gor[c].parcels[gor[c].i]
           IN  \E db \in {"ok", "error", "fatal"} :
                /\ store' = IF db = "ok" THEN store \cup {p.TrackingNumber} ELSE store
                /\ printed' = IF db = "error"
                              THEN printed \cup {<<"Error upserting parcel", p.TrackingNumber>>}
                              ELSE printed
                /\ spc' = IF db = "fatal" THEN "exited" ELSE spc
        /\ gor' = [gor EXCEPT ![c].pc = "merge", ![c].i = @ + 1]
    /\ UNCHANGED <<wg, args, groups, todo, allParcels, mu, clsVars, trkVars, fnVars, conVars>>

\* no parcel is left to merge: the goroutine ends, wg.Done()
GoDone ==
    /\ Running
    /\ \E c \in SupportedCarriers :
        /\ gor[c].pc = "merge"
        /\ Mergeable(gor[c]) = {}
        /\ gor' = [gor EXCEPT ![c].pc = "done", ![c].i = Len(gor[c].parcels) + 1]
    /\ wg' = wg - 1
    /\ UNCHANGED <<args, spc, groups, todo, allParcels, mu, store, printed, clsVars, trkVars, fnVars, conVars>>

\* the range loop is over, wg.Wait() returns: return allParcels, nil
Wait ==
    /\ spc = "dispatch"
    /\ todo = {}
    /\ wg = 0
    /\ spc' = "returned"
    /\ UNCHANGED <<wg, args, groups, todo, gor, allParcels, mu, store, printed, clsVars, trkVars, fnVars, conVars>>

NextSync ==
    \/ GroupByCarrier \/ DispatchSupported \/ DispatchUnsupported
    \/ GoTrack \/ GoLock \/ GoWrite \/ GoUpsert \/ GoDone \/ Wait

SpecSync == InitSync /\ [][NextSync]_vars

\* C2: after syncParcels returns, the result has an entry for every input
\* tracking number, each with populated data or a non-nil error, and the
\* numbers of a group whose Track returned an error carry that error.
C2_ResultComplete ==
    spc = "returned" =>
        \A c \in DOMAIN groups : \A k \in DOMAIN groups[c] :
            /\ groups[c][k] \in DOMAIN allParcels
            /\ LET p == allParcels[groups[c][k]]
               IN  /\ HasData(p) \/ HasError(p)
                   /\ gor[c].err # NoError => p.Error = gor[c].err

\* the input numbers that DetectCarrier gives to carrier c, in input order
ClassifiedTo(c) == SelectSeq(args, LAMBDA t : c \in DetectCarrier(t))

\* C22: groupByCarrier puts every input number, as often as it was given, into
\* the one group of the carrier DetectCarrier gives it and keeps the input
\* order within a group; the Track of a carrier's client is called with the
\* group of that carrier only.
C22_GroupsPartitionInput ==
    spc # "start" =>
        /\ DOMAIN groups = UNION {DetectCarrier(args[i]) : i \in DOMAIN args}
        /\ \A c \in DOMAIN groups : groups[c] = ClassifiedTo(c)
        /\ \A i \in DOMAIN args :
              Cardinality({c \in DOMAIN groups :
                              \E k \in DOMAIN groups[c] : groups[c][k] = args[i]}) = 1
        /\ \A c \in SupportedCarriers :
              gor[c].pc # "none" =>
                /\ gor[c].tns = groups[c]
                /\ \A k \in DOMAIN gor[c].tns : DetectCarrier(gor[c].tns[k]) = {c}

\* one number given twice is twice in its group, and Track is called with both
C22_Witness ==
    /\ Len(args) = 2 /\ args[1] = args[2]
    /\ \E c \in SupportedCarriers : gor[c].pc = "merge" /\ gor[c].tns = args

\* C10: a carrier without a client is reported and left out, and the call
\* goes on with the other groups instead of ending there.
C10_UnsupportedNotFatal ==
    \A c \in DOMAIN groups \ SupportedCarriers :
        c \notin todo => <<"Unsupported carrier", c>> \in printed /\ spc # "exited"

\* every goroutine that was started has run to its end
AllFinished == \A c \in SupportedCarriers : gor[c].pc \in {"none", "done"}

\* C12: syncParcels returns only after every dispatched fetch goroutine has
\* finished, and once it has returned nothing writes to the result map or to
\* the store any more.
C12_ReturnsAfterAllFinished ==
    /\ [](spc = "returned" => todo = {} /\ AllFinished)
    /\ [][spc = "returned" => allParcels' = allParcels /\ store' = store]_vars

\* a call with two carriers returned after both goroutines merged and stored
C12_Witness ==
    /\ spc = "returned"
    /\ Cardinality({c \in SupportedCarriers : gor[c].pc = "done"}) = 2
    /\ Cardinality(DOMAIN allParcels) = 2
    /\ Cardinality(store) = 2

\* the goroutines between mu.Lock() and mu.Unlock()
InWriteSection == {c \in SupportedCarriers : gor[c].pc = "locked"}

\* C13: the writes of the goroutines into the result map are mutually
\* exclusive: at most one goroutine is inside the map-write section at a time.
C13_WritesMutuallyExclusive ==
    /\ Cardinality(InWriteSection) <= 1
    /\ \A c \in InWriteSection : mu = c

\* one goroutine is inside the section while another has a parcel to write
C13_Witness ==
    \E c, d \in SupportedCarriers :
        /\ c # d
        /\ gor[c].pc = "locked"
        /\ gor[d].pc = "merge" /\ Mergeable(gor[d]) # {}

\* goroutine c has just written the parcel at its position i
JustWrote(c) == gor[c].pc = "locked" /\ gor'[c].pc = "upsert"

\* C14: the result holds at most one parcel for a tracking number, under that
\* number, and a write replaces the entry of its tracking number by the parcel
\* written and changes no other entry: the entry kept is the one merged last.
C14_LastMergedKept ==
    /\ [](\A t \in DOMAIN allParcels : allParcels[t].TrackingNumber = t)
    /\ [][\A c \in SupportedCarriers :
            JustWrote(c) =>
                LET p == gor[c].parcels[gor[c].i]
                IN  /\ DOMAIN allParcels' = DOMAIN allParcels \cup {p.TrackingNumber}
                    /\ allParcels'[p.TrackingNumber] = p
                    /\ \A t \in DOMAIN allParcels :
                         t # p.TrackingNumber => allParcels'[t] = allParcels[t]]_vars

\* two different results for one tracking number were merged, the second one stayed
C14_Witness ==
    \E c \in SupportedCarriers :
        /\ gor[c].pc = "upsert" /\ gor[c].i = 2
        /\ gor[c].parcels[1].TrackingNumber = gor[c].parcels[2].TrackingNumber
        /\ gor[c].parcels[1] # gor[c].parcels[2]
        /\ LastTrackingEvent(gor[c].parcels[1]) # <<>>
        /\ allParcels[gor[c].parcels[2].TrackingNumber] = gor[c].parcels[2]

\* goroutine c got parcels from Track and went through all of them
MergedAll(c) == gor[c].pc = "done" /\ gor[c].err = NoError

\* C15: a parcel returned by a client is merged into the result if and only
\* if it has data or carries an error.
C15_MergedIffDataOrError ==
    \A c \in SupportedCarriers :
        MergedAll(c) =>
            \A j \in DOMAIN gor[c].parcels :
                LET p == gor[c].parcels[j]
                IN  (HasData(p) \/ HasError(p)) <=> p.TrackingNumber \in DOMAIN allParcels

----------------------------------------------------------------------------
(* initParcels (tui.go): the fetch of the TUI.  The same loop as in         *)
(* syncParcels, with no mutex around the map write, no return after an      *)
(* error and no store.  The map write takes time: it begins and it ends.    *)

\* one pass of the range loop with a carrier that has a client: wg.Add(1), go func()
TuiDispatchSupported ==
    /\ spc = "dispatch"
    /\ \E c \in todo \cap SupportedCarriers :
        /\ gor' = [gor EXCEPT ![c].pc = "track", ![c].tns = groups[c]]
        /\ todo' = todo \ {c}
    /\ wg' = wg + 1
    /\ UNCHANGED <<args, spc, groups, allParcels, mu, store, printed, clsVars, trkVars, fnVars, conVars>>

\* one pass of the range loop in the default branch: Printf and os.Exit(1)
TuiDispatchUnsupported ==
    /\ spc = "dispatch"
    /\ \E c \in todo \ SupportedCarriers :
        /\ printed' = printed \cup {<<"Unsupported carrier", c>>}
        /\ todo' = todo \ {c}
    /\ spc' = "exited"
    /\ UNCHANGED <<wg, args, groups, gor, allParcels, mu, store, clsVars, trkVars, fnVars, conVars>>

\* parcels, err := svc.Track(trackingNumbers); an error is printed and the
\* loop over the parcels, which are nil then, follows
TuiTrack ==
    /\ Running
    /\ \E c \in SupportedCarriers :
        /\ gor[c].pc = "track"
        /\ \E net \in Nets(c, "nil", gor[c].tns) :
            LET r == Track(c, "nil", gor[c].tns, net)
            IN  IF r.panicked
                THEN spc' = "crashed" /\ UNCHANGED <<gor, printed>>
                ELSE /\ printed' = IF r.err # NoError THEN printed \cup {<<"Err", c>>}
                                   ELSE printed
                     /\ gor' = [gor EXCEPT ![c].pc = "merge", ![c].parcels = r.parcels,
                                           ![c].i = 1, ![c].err = r.err]
                     /\ UNCHANGED spc
    /\ UNCHANGED <<wg, args, groups, todo, allParcels, mu, store, clsVars, trkVars, fnVars, conVars>>

\* the goroutines inside allParcels[p.TrackingNumber] = p
TuiWriting == {c \in SupportedCarriers : gor[c].pc = "writing"}

\* the loop skips to the next parcel that has a last event; the map write begins
TuiWriteBegin ==
    /\ Running
    /\ \E c \in SupportedCarriers :
        /\ gor[c].pc = "merge"
        /\ Mergeable(gor[c]) # {}
        /\ gor' = [gor EXCEPT ![c].pc = "writing", ![c].i = Least(Mergeable(gor[c]))]
    /\ UNCHANGED <<wg, args, spc, groups, todo, allParcels, mu, store, printed, clsVars, trkVars, fnVars, conVars>>

\* the map write ends.  Alone it stores the parcel; overlapping with the
\* write of another goroutine it is a data race on a Go map: the entry is
\* stored, or it is lost, or the runtime ends the process with
\* "fatal error: concurrent map writes"
TuiWriteEnd ==
    /\ Running
    /\ \E c \in SupportedCarriers :
        /\ gor[c].pc = "writing"
        /\ LET p == gor[c].parcels[gor[c].i]
               written == [t \in DOMAIN allParcels \cup {p.TrackingNumber} |->
                             IF t = p.TrackingNumber THEN p ELSE allParcels[t]]
           IN  \E outcome \in IF TuiWriting = {c} THEN {"stored"}
                               ELSE {"stored", "lost", "fatal"} :
                    /\ allParcels' = IF outcome = "stored" THEN written ELSE allParcels
                    /\ spc' = IF outcome = "fatal" THEN "crashed" ELSE spc
        /\ gor' = [gor EXCEPT ![c].pc = "merge", ![c].i = @ + 1]
    /\ UNCHANGED <<wg, args, groups, todo, mu, store, printed, clsVars, trkVars, fnVars, conVars>>

\* no parcel is left to merge: the goroutine ends, wg.Done()
TuiDone ==
    /\ Running
    /\ \E c \in SupportedCarriers :
        /\ gor[c].pc = "merge"
        /\ Mergeable(gor[c]) = {}
        /\ gor' = [gor EXCEPT ![c].pc = "done", ![c].i = Len(gor[c].parcels) + 1]
    /\ wg' = wg - 1
    /\ UNCHANGED <<args, spc, groups, todo, allParcels, mu, store, printed, clsVars, trkVars, fnVars, conVars>>

\* wg.Wait() returns: return fetchMsg{parcels: allParcels}
TuiWait ==
    /\ spc = "dispatch"
    /\ todo = {}
    /\ wg = 0
    /\ spc' = "returned"
    /\ UNCHANGED <<wg, args, groups, todo, gor, allParcels, mu, store, printed, clsVars, trkVars, fnVars, conVars>>

\* TUI: groups := groupByCarrier(args), then the command returned by initParcels runs
NextTui ==
    \/ GroupByCarrier \/ TuiDispatchSupported \/ TuiDispatchUnsupported
    \/ TuiTrack \/ TuiWriteBegin \/ TuiWriteEnd \/ TuiDone \/ TuiWait

SpecTui == InitSync /\ [][NextTui]_vars

\* C24: in initParcels the goroutines never write the result map at the same
\* time: each write to allParcels excludes the writes of the other goroutines.
C24_TuiWritesMutuallyExclusive == Cardinality(TuiWriting) <= 1

----------------------------------------------------------------------------
(* USPSService.TrackRaw after the token check, step by step: the loop       *)
(* starts one goroutine for each element of trackingNumbers; each sends its *)
(* request, gets the answer, and appends what it decoded under the mutex.   *)

\* the batches handed to TrackRaw: a number can be in a batch more than once,
\* as groupByCarrier keeps every occurrence
RawBatches == SeqsUpTo({tnUSPS1, tnUSPS2}, MaxBatch)

InitRaw ==
    /\ \E tns \in RawBatches :
        reqs = [trackingNumbers |-> tns, next |-> 1, main |-> "loop", wg |-> 0, mu |-> 0,
                pc |-> [i \in DOMAIN tns |-> "none"],
                answer |-> [i \in DOMAIN tns |-> "unsent"],
                trackingResponses |-> <<>>]
    /\ callers = <<>>
    /\ ClassifyIdle
    /\ TrackIdle
    /\ SyncIdle
    /\ FnIdle

\* one pass of the range loop: wg.Add(1); go func(tn string) {...}(trackingNumber)
RawGo ==
    /\ reqs.main = "loop"
    /\ reqs.next <= Len(reqs.trackingNumbers)
    /\ reqs' = [reqs EXCEPT !.pc[reqs.next] = "started", !.next = @ + 1, !.wg = @ + 1]
    /\ UNCHANGED <<callers, clsVars, trkVars, synVars, fnVars>>

\* s.Client.Do(req): the request of goroutine i is on its way
RawSend ==
    /\ reqs.main = "loop"
    /\ \E i \in DOMAIN reqs.pc :
        /\ reqs.pc[i] = "started"
        /\ reqs' = [reqs EXCEPT !.pc[i] = "inflight"]
    /\ UNCHANGED <<callers, clsVars, trkVars, synVars, fnVars>>

\* the answer arrives.  After a transport error res is nil and res.Body
\* panics; a body that is not JSON is logged and the goroutine ends
RawAnswer ==
    /\ reqs.main = "loop"
    /\ \E i \in DOMAIN reqs.pc :
        /\ reqs.pc[i] = "inflight"
        /\ \E a \in FetchOutcomes :
            reqs' = [reqs EXCEPT
                        !.answer[i] = a,
                        !.main = IF a = "transport" THEN "panicked" ELSE @,
                        !.pc[i] = IF a = "transport" THEN "panicked"
                                  ELSE IF a = "badjson" THEN "done" ELSE "decoded",
                        !.wg = IF a = "badjson" THEN @ - 1 ELSE @]
    /\ UNCHANGED <<callers, clsVars, trkVars, synVars, fnVars>>

\* mu.Lock()
RawLock ==
    /\ reqs.main = "loop"
    /\ reqs.mu = 0
    /\ \E i \in DOMAIN reqs.pc :
        /\ reqs.pc[i] = "decoded"
        /\ reqs' = [reqs EXCEPT !.pc[i] = "locked", !.mu = i]
    /\ UNCHANGED <<callers, clsVars, trkVars, synVars, fnVars>>

\* trackingResponses = append(trackingResponses, &trackingRes); mu.Unlock(); wg.Done()
RawAppend ==
    /\ reqs.main = "loop"
    /\ \E i \in DOMAIN reqs.pc :
        /\ reqs.pc[i] = "locked"
        /\ reqs' = [reqs EXCEPT
                        !.trackingResponses =
                            Append(@, [TrackingNumber |-> IF reqs.answer[i] = "status" THEN <<>>
                                                          ELSE reqs.trackingNumbers[i],
                                       TrackingEvents |-> ResponseEvents(reqs.answer[i])]),
                        !.mu = 0,
                        !.pc[i] = "done",
                        !.wg = @ - 1]
    /\ UNCHANGED <<callers, clsVars, trkVars, synVars, fnVars>>

\* the loop is over and wg.Wait() returns: return trackingResponses, nil
RawWait ==
    /\ reqs.main = "loop"
    /\ reqs.next > Len(reqs.trackingNumbers)
    /\ reqs.wg = 0
    /\ reqs' = [reqs EXCEPT !.main = "returned"]
    /\ UNCHANGED <<callers, clsVars, trkVars, synVars, fnVars>>

NextRaw == RawGo \/ RawSend \/ RawAnswer \/ RawLock \/ RawAppend \/ RawWait

SpecRaw == InitRaw /\ [][NextRaw]_vars

\* the requests for tracking number t that are sent and not yet answered
InFlight(t) ==
    {i \in DOMAIN reqs.pc : reqs.pc[i] = "inflight" /\ reqs.trackingNumbers[i] = t}

\* C25: at most one fetch is in flight for a tracking number at any time,
\* also when the number is in the input more than once.
C25_OneFetchPerNumber ==
    \A i \in DOMAIN reqs.trackingNumbers :
        Cardinality(InFlight(reqs.trackingNumbers[i])) <= 1

----------------------------------------------------------------------------
(* One client used by Track calls that overlap.  The clients hold no lock:  *)
(* each call tests s.Token, and if it needs a token it sends the token      *)
(* request, gets the answer and assigns s.Token.                            *)

\* the most Track calls on one client at the same time
MaxCalls == 2

InitRefresh ==
    /\ \E c \in SupportedCarriers, t \in {"nil", "expired", "valid"} :
        callers = [carrier |-> c, Token |-> t,
                   pc |-> [k \in 1..MaxCalls |-> "call"],
                   err |-> [k \in 1..MaxCalls |-> NoError],
                   bearer |-> [k \in 1..MaxCalls |-> "none"]]
    /\ reqs = <<>>
    /\ ClassifyIdle
    /\ TrackIdle
    /\ SyncIdle
    /\ FnIdle

\* if s.Token == nil || !s.Token.IsValid()
RefreshCheck ==
    /\ \E k \in DOMAIN callers.pc :
        /\ callers.pc[k] = "call"
        /\ callers' = [callers EXCEPT
                          !.pc[k] = IF NeedsAuth(callers.Token) THEN "reauth" ELSE "track"]
    /\ UNCHANGED <<reqs, clsVars, trkVars, synVars, fnVars>>

\* Reauthenticate: s.Client.Do(req), the token request is on its way
RefreshSend ==
    /\ \E k \in DOMAIN callers.pc :
        /\ callers.pc[k] = "reauth"
        /\ callers' = [callers EXCEPT !.pc[k] = "inflight"]
    /\ UNCHANGED <<reqs, clsVars, trkVars, synVars, fnVars>>

\* Reauthenticate: the answer arrives; an error is returned by Track, a token
\* is decoded into a local variable
RefreshAnswer ==
    /\ \E k \in DOMAIN callers.pc :
        /\ callers.pc[k] = "inflight"
        /\ \E answer \in {"ok"} \cup AuthFailuresOf(callers.carrier) :
            LET a == Reauthenticate(callers.carrier, callers.Token, answer)
            IN  callers' = [callers EXCEPT
                              !.pc[k] = IF a.err # NoError THEN "failed" ELSE "assign",
                              !.err[k] = a.err]
    /\ UNCHANGED <<reqs, clsVars, trkVars, synVars, fnVars>>

\* Reauthenticate: s.Token = &token begins
RefreshAssignBegin ==
    /\ \E k \in DOMAIN callers.pc :
        /\ callers.pc[k] = "assign"
        /\ callers' = [callers EXCEPT !.pc[k] = "assigning"]
    /\ UNCHANGED <<reqs, clsVars, trkVars, synVars, fnVars>>

\* Reauthenticate: s.Token = &token ends; every token decoded is a valid one,
\* so whichever of two racing assignments stays, the client holds a valid token
RefreshAssignEnd ==
    /\ \E k \in DOMAIN callers.pc :
        /\ callers.pc[k] = "assigning"
        /\ callers' = [callers EXCEPT !.pc[k] = "track", !.Token = "valid"]
    /\ UNCHANGED <<reqs, clsVars, trkVars, synVars, fnVars>>

\* the tracking requests, with "Bearer " + s.Token.Value as it is read now
RefreshTrack ==
    /\ \E k \in DOMAIN callers.pc :
        /\ callers.pc[k] = "track"
        /\ callers' = [callers EXCEPT !.pc[k] = "done", !.bearer[k] = callers.Token]
    /\ UNCHANGED <<reqs, clsVars, trkVars, synVars, fnVars>>

NextRefresh ==
    \/ RefreshCheck \/ RefreshSend \/ RefreshAnswer
    \/ RefreshAssignBegin \/ RefreshAssignEnd \/ RefreshTrack

SpecRefresh == InitRefresh /\ [][NextRefresh]_vars

\* the calls whose token request is sent and not yet answered
RefreshInFlight == {k \in DOMAIN callers.pc : callers.pc[k] = "inflight"}

\* the calls inside the assignment to s.Token
RefreshAssigning == {k \in DOMAIN callers.pc : callers.pc[k] = "assigning"}

\* C26: when Track calls on one client overlap while its token is absent or
\* expired, at most one token request is in flight at a time and the held
\* token is never written by two calls at the same time.
C26_OneRefreshInFlight ==
    /\ Cardinality(RefreshInFlight) <= 1
    /\ Cardinality(RefreshAssigning) <= 1

----------------------------------------------------------------------------
(* The normalizing functions of the clients, each applied to one input:     *)
(* fin names the function and holds its argument, fout its result.          *)

\* the most events, activities or delivery dates in one input
MaxEvents == 3

Call(fn, S) == [fn : {fn}, arg : S]

\* events at two times, told apart by their descriptions
EventInputs == [Timestamp : 1..2, Description : {"a", "b"}]

\* a parcel without data, and parcels with up to MaxEvents events
ParcelInputs ==
    {NewParcel(tnUPS1, CarrierUPS, tnUPS1)}
    \cup {WithData(NewParcel(tnUPS1, CarrierUPS, tnUPS1), events) :
            events \in SeqsUpTo(EventInputs, MaxEvents)}

\* fedex EventType.ParcelEventType; d is a pointer: <<>> is nil
FedexParcelEventType(d) ==
    IF d = <<>> THEN ParcelEventType.Unknown
    ELSE CASE d[1] = "OC" -> ParcelEventType.OrderConfirmed
           [] d[1] = "PU" -> ParcelEventType.PickedUp
           [] d[1] = "AO" -> ParcelEventType.AssertOnTime
           [] d[1] = "DP" -> ParcelEventType.Departed
           [] d[1] = "AR" -> ParcelEventType.Arrived
           [] d[1] = "OD" -> ParcelEventType.OutForDelivery
           [] d[1] = "DL" -> ParcelEventType.Delivered
           [] OTHER -> ParcelEventType.Unknown

\* ups Status.ParcelEventType; s is a pointer and s.Code is read without a test
UPSParcelEventType(s) ==
    IF s = <<>> THEN Panic
    ELSE LET Code == s[1].Code
             StatusCode == s[1].StatusCode
         IN  CASE Code = "MP" -> ParcelEventType.OrderConfirmed
               [] Code \in {"OR", "AR"} -> ParcelEventType.Arrived
               [] Code = "YP" -> ParcelEventType.Processing
               [] Code = "DP" -> ParcelEventType.Departed
               [] Code = "OF" -> ParcelEventType.OnVehicle
               [] Code = "OT" -> ParcelEventType.OutForDelivery
               [] Code = "FS" -> ParcelEventType.Delivered
               [] OTHER ->
                    CASE StatusCode \in {"00", "09", "12", "2D", "2J", "32", "41", "42", "44"}
                            -> ParcelEventType.Delayed
                      [] StatusCode \in {"1N", "1Z", "2C", "2Q"}
                            -> ParcelEventType.AwaitingCustomerPickup
                      [] StatusCode = "28" -> ParcelEventType.ParcelHeld
                      [] StatusCode = "2K" -> ParcelEventType.OutForDelivery
                      [] StatusCode \in {"2W", "3F", "3G", "3H"} -> ParcelEventType.Delivered
                      [] StatusCode = "38" -> ParcelEventType.AwaitingCustomerAction
                      [] StatusCode = "4X" -> ParcelEventType.TransferredToLocal
                      [] OTHER -> ParcelEventType.Unknown

\* usps TrackingEvent.ParcelEventType
USPSParcelEventType(e) ==
    CASE e.EventCode = "DELIVERY" -> ParcelEventType.Delivered
      [] e.EventCode = "ARRIVAL" -> ParcelEventType.Arrived
      [] e.EventCode = "DEPARTURE" -> ParcelEventType.Departed
      [] e.EventCode = "OUT_FOR_DELIVERY" -> ParcelEventType.OutForDelivery
      [] OTHER -> ParcelEventType.Unknown

\* codes no carrier documents: the empty code, a code never seen, lower case
NeverSeenCodes == {"", "XX", "dl"}

FedexCodes == {"OC", "PU", "AO", "DP", "AR", "OD", "DL"} \cup NeverSeenCodes
UPSCodes == {"MP", "OR", "AR", "YP", "DP", "OF", "OT", "FS"} \cup NeverSeenCodes
UPSStatusCodes ==
    {"00", "09", "12", "2D", "2J", "32", "41", "42", "44", "1N", "1Z", "2C", "2Q",
     "28", "2K", "2W", "3F", "3G", "3H", "38", "4X"} \cup NeverSeenCodes
USPSCodes == {"DELIVERY", "ARRIVAL", "DEPARTURE", "OUT_FOR_DELIVERY"} \cup NeverSeenCodes

\* the event codes as the decoded JSON holds them: the UPS status is a pointer
\* that is nil when the activity has no status object
FedexEventTypeInputs == {<<>>} \cup {<<c>> : c \in FedexCodes}
UPSStatusInputs ==
    {<<>>} \cup {<<st>> : st \in [Type : {"D", "I"}, Code : UPSCodes, StatusCode : UPSStatusCodes]}
USPSEventInputs == [EventCode : USPSCodes]

\* the text returned for an address with nothing in it, one symbol here
EmDash == <<"-">>

\* fedex Address.String: the builder after each step.  The country code is
\* written whenever it is not "US", an empty one included.
FedexAddressString(a) ==
    IF a = <<>> THEN Panic
    ELSE LET adr == a[1]
             sb1 == IF adr.City # <<>>
                    THEN adr.City \o (IF adr.StateOrProvinceCode # <<>> THEN <<",", " ">> ELSE <<>>)
                    ELSE <<>>
             sb2 == sb1 \o adr.StateOrProvinceCode
             sb3 == IF adr.PostalCode # <<>>
                    THEN sb2 \o (IF Len(sb2) > 0 THEN <<" ">> ELSE <<>>) \o adr.PostalCode
                    ELSE sb2
             sb4 == IF adr.CountryCode # <<"U", "S">>
                    THEN sb3 \o (IF Len(sb3) > 0 THEN <<",", " ">> ELSE <<>>) \o adr.CountryCode
                    ELSE sb3
         IN  IF Len(sb4) = 0 THEN EmDash ELSE ToUpper(sb4)

\* ups Address.String, reached through a.Location.Address
UPSAddressString(a) ==
    IF a = <<>> THEN Panic
    ELSE LET adr == a[1]
             sb1 == IF adr.City # <<>>
                    THEN adr.City \o (IF adr.StateProvince # <<>> THEN <<",", " ">> ELSE <<>>)
                    ELSE <<>>
             sb2 == sb1 \o adr.StateProvince
             sb3 == IF adr.PostalCode # <<>>
                    THEN sb2 \o (IF Len(sb2) > 0 THEN <<" ">> ELSE <<>>) \o adr.PostalCode
                    ELSE sb2
             sb4 == IF adr.CountryCode # <<"U", "S">>
                    THEN sb3 \o (IF Len(sb3) > 0 THEN <<",", " ">> ELSE <<>>) \o adr.CountryCode
                    ELSE sb3
         IN  IF Len(sb4) = 0 THEN EmDash ELSE ToUpper(sb4)

\* usps TrackingEvent.LocationString
USPSLocationString(e) ==
    LET sb1 == IF e.EventCity # <<>>
               THEN e.EventCity \o (IF e.EventState # <<>> THEN <<",", " ">> ELSE <<>>)
               ELSE <<>>
        sb2 == sb1 \o e.EventState
        sb3 == IF e.EventZIP # <<>>
               THEN sb2 \o (IF Len(sb2) > 0 THEN <<" ">> ELSE <<>>) \o e.EventZIP
               ELSE sb2
        sb4 == IF e.EventCountry # <<>> /\ e.EventCountry # <<"U", "S">>
               THEN sb3 \o (IF Len(sb3) > 0 THEN <<",", " ">> ELSE <<>>) \o e.EventCountry
               ELSE sb3
    IN  IF Len(sb4) = 0 THEN EmDash ELSE ToUpper(sb4)

\* the fields of an address: absent, or Los Angeles / CA / 90001 / US or MX
Cities == {<<>>, <<"L", "o", "s", " ", "A", "n", "g", "e", "l", "e", "s">>}
States == {<<>>, <<"C", "A">>}
Zips == {<<>>, Dec(90001, 5)}
Countries == {<<>>, <<"U", "S">>, <<"M", "X">>}

\* the address of an event as the decoded JSON holds it: a pointer for FedEx
\* and UPS, nil when the event has no location
FedexAddressInputs ==
    {<<>>} \cup {<<adr>> : adr \in [City : Cities, StateOrProvinceCode : States,
                                    PostalCode : Zips, CountryCode : Countries]}
UPSAddressInputs ==
    {<<>>} \cup {<<adr>> : adr \in [City : Cities, StateProvince : States,
                                    PostalCode : Zips, CountryCode : Countries]}
USPSLocationInputs ==
    [EventCity : Cities, EventState : States, EventZIP : Zips, EventCountry : Countries]

NoData == [Events |-> <<>>, Delivered |-> FALSE, panicked |-> FALSE]

\* FedexService.Track, the inner loop: the scan events of one track result
RECURSIVE FedexScanEvents(_, _, _)
FedexScanEvents(scanEvents, i, data) ==
    IF i > Len(scanEvents) THEN data
    ELSE FedexScanEvents(scanEvents, i + 1,
            [data EXCEPT !.Delivered = @ \/ scanEvents[i] = "DL",
                         !.Events = Append(@, [Type |-> FedexParcelEventType(<<scanEvents[i]>>)])])

\* FedexService.Track, the outer loop: the track results of one tracking number
RECURSIVE FedexData(_, _, _)
FedexData(trackResults, r, data) ==
    IF r > Len(trackResults) THEN data
    ELSE FedexData(trackResults, r + 1, FedexScanEvents(trackResults[r], 1, data))

\* UPSService.Track: the activities of one package; a.Status is a pointer
RECURSIVE UPSData(_, _, _)
UPSData(activity, i, data) ==
    IF i > Len(activity) THEN data
    ELSE IF activity[i] = <<>> THEN [data EXCEPT !.panicked = TRUE]
    ELSE UPSData(activity, i + 1,
            [data EXCEPT !.Delivered = @ \/ activity[i][1].Type = "D"
                                          \/ activity[i][1].Code = "FS",
                         !.Events = Append(@, [Type |-> UPSParcelEventType(activity[i])])])

\* USPSService.Track: Delivered comes from the status category of the answer
USPSData(res) ==
    [Events |-> [i \in DOMAIN res.TrackingEvents |->
                    [Type |-> USPSParcelEventType(res.TrackingEvents[i])]],
     Delivered |-> ToUpper(res.StatusCategory)
                        = <<"D", "E", "L", "I", "V", "E", "R", "E", "D">>,
     panicked |-> FALSE]

\* the track results of a FedEx answer, each with up to MaxEvents scan events
MaxTrackResults == 2
FedexTrackResultInputs == SeqsUpTo(SeqsUpTo({"DL", "PU"}, MaxEvents), MaxTrackResults)

UPSActivityInputs ==
    SeqsUpTo({<<>>} \cup {<<st>> : st \in [Type : {"D", "I"}, Code : {"FS", "DP"},
                                          StatusCode : {""}]},
             MaxEvents)

USPSResponseInputs ==
    [StatusCategory : {<<>>, <<"D", "e", "l", "i", "v", "e", "r", "e", "d">>,
                       <<"I", "n", " ", "T", "r", "a", "n", "s", "i", "t">>},
     TrackingEvents : SeqsUpTo([EventCode : {"DELIVERY", "ARRIVAL"}], MaxEvents)]

\* days of month m of year y
DaysIn(y, m) ==
    IF m = 2 THEN (IF (y % 4 = 0 /\ y % 100 # 0) \/ y % 400 = 0 THEN 29 ELSE 28)
    ELSE IF m \in {4, 6, 9, 11} THEN 30 ELSE 31

\* time.Parse("20060102", s): <<>> for an error, else the day as year, month, day
ParseDate(s) ==
    IF Len(s) # 8 \/ \E i \in DOMAIN s : s[i] \notin Digit THEN <<>>
    ELSE LET v(i) == DigitVal(s[i])
             y == v(1) * 1000 + v(2) * 100 + v(3) * 10 + v(4)
             m == v(5) * 10 + v(6)
             d == v(7) * 10 + v(8)
         IN  IF m \in 1..12 /\ d \in 1..DaysIn(y, m) THEN <<y * 10000 + m * 100 + d>>
             ELSE <<>>

\* UPSService.Track: the delivery dates of one package.  The projection is
\* replaced only when it is already set.
RECURSIVE UPSDeliveryProjection(_, _, _)
UPSDeliveryProjection(deliveryDate, i, projection) ==
    IF i > Len(deliveryDate) THEN [DeliveryProjection |-> projection, fatal |-> FALSE]
    ELSE IF deliveryDate[i].Type \notin {"SDD", "RDD"}
    THEN UPSDeliveryProjection(deliveryDate, i + 1, projection)
    ELSE LET d == ParseDate(deliveryDate[i].Date)
         IN  IF d = <<>> THEN [DeliveryProjection |-> projection, fatal |-> TRUE]
             ELSE UPSDeliveryProjection(deliveryDate, i + 1,
                    IF projection # <<>> /\ d[1] > projection[1] THEN d ELSE projection)

\* delivery dates: two days and a date that does not parse
DeliveryDateInputs ==
    SeqsUpTo([Type : {"SDD", "RDD", "DEL"},
              Date : {Dec(20250301, 8), Dec(20250302, 8), Dec(20250230, 8)}],
             MaxEvents)

\* s read in the order given by the permutation q
Permute(s, q) == [i \in DOMAIN s |-> s[q[i]]]

Applied(fn) == fpc = "done" /\ fin.fn = fn

ApplyLastTrackingEvent ==
    /\ fpc = "input"
    /\ fin.fn = "LastTrackingEvent"
    /\ fout' = LastTrackingEvent(fin.arg)
    /\ fpc' = "done"
    /\ UNCHANGED <<fin, clsVars, trkVars, synVars, conVars>>

\* C16: LastTrackingEvent returns the event with the maximum timestamp, the
\* same event for every permutation of the event list, and nil when the
\* parcel has no data or no events.
C16_LastEventOrderIndependent ==
    Applied("LastTrackingEvent") =>
        LET p == fin.arg
        IN  IF ~HasData(p) \/ Len(p.Data[1].Events) = 0 THEN fout = <<>>
            ELSE /\ fout # <<>>
                 /\ \E i \in DOMAIN p.Data[1].Events : p.Data[1].Events[i] = fout[1]
                 /\ \A i \in DOMAIN p.Data[1].Events :
                      p.Data[1].Events[i].Timestamp <= fout[1].Timestamp
                 /\ \A q \in Orders(Len(p.Data[1].Events)) :
                      LastTrackingEvent(WithData(p, Permute(p.Data[1].Events, q))) = fout

ApplyFedexParcelEventType ==
    /\ fpc = "input"
    /\ fin.fn = "fedex.ParcelEventType"
    /\ fout' = FedexParcelEventType(fin.arg)
    /\ fpc' = "done"
    /\ UNCHANGED <<fin, clsVars, trkVars, synVars, conVars>>

ApplyUPSParcelEventType ==
    /\ fpc = "input"
    /\ fin.fn = "ups.ParcelEventType"
    /\ fout' = UPSParcelEventType(fin.arg)
    /\ fpc' = "done"
    /\ UNCHANGED <<fin, clsVars, trkVars, synVars, conVars>>

ApplyUSPSParcelEventType ==
    /\ fpc = "input"
    /\ fin.fn = "usps.ParcelEventType"
    /\ fout' = USPSParcelEventType(fin.arg)
    /\ fpc' = "done"
    /\ UNCHANGED <<fin, clsVars, trkVars, synVars, conVars>>

\* C19: each carrier's event-code mapping is total: every native code, an
\* empty or never-seen one included, maps to one ParcelEventType, codes no
\* carrier documents map to Unknown, and the mapping never fails.
C19_EventTypeMappingTotal ==
    /\ Applied("fedex.ParcelEventType") =>
        /\ fout \in ParcelEventTypes
        /\ (fin.arg = <<>> \/ fin.arg[1] \in NeverSeenCodes) => fout = ParcelEventType.Unknown
    /\ Applied("ups.ParcelEventType") =>
        /\ fout \in ParcelEventTypes
        /\ (fin.arg = <<>> \/ (fin.arg[1].Code \in NeverSeenCodes
                                /\ fin.arg[1].StatusCode \in NeverSeenCodes))
              => fout = ParcelEventType.Unknown
    /\ Applied("usps.ParcelEventType") =>
        /\ fout \in ParcelEventTypes
        /\ fin.arg.EventCode \in NeverSeenCodes => fout = ParcelEventType.Unknown

ApplyFedexAddressString ==
    /\ fpc = "input"
    /\ fin.fn = "fedex.Address.String"
    /\ fout' = FedexAddressString(fin.arg)
    /\ fpc' = "done"
    /\ UNCHANGED <<fin, clsVars, trkVars, synVars, conVars>>

ApplyUPSAddressString ==
    /\ fpc = "input"
    /\ fin.fn = "ups.Address.String"
    /\ fout' = UPSAddressString(fin.arg)
    /\ fpc' = "done"
    /\ UNCHANGED <<fin, clsVars, trkVars, synVars, conVars>>

ApplyUSPSLocationString ==
    /\ fpc = "input"
    /\ fin.fn = "usps.LocationString"
    /\ fout' = USPSLocationString(fin.arg)
    /\ fpc' = "done"
    /\ UNCHANGED <<fin, clsVars, trkVars, synVars, conVars>>

\* a and b with sep between them when both are present
Joined(a, sep, b) == IF a = <<>> THEN b ELSE IF b = <<>> THEN a ELSE a \o sep \o b

\* 'CITY, STATE ZIP, COUNTRY' of the fields that are present, without a country US
Location(city, state, zip, country) ==
    ToUpper(Joined(Joined(Joined(city, <<",", " ">>, state), <<" ">>, zip), <<",", " ">>,
                   IF country = <<"U", "S">> THEN <<>> ELSE country))

\* C20: the location string is the upper-cased 'CITY, STATE ZIP, COUNTRY' of
\* the address, each segment and its separator included only if the field is
\* present and the country left out when it is US, for all three formatters.
C20_LocationString ==
    /\ (Applied("fedex.Address.String") /\ fin.arg # <<>>) =>
        LET a == fin.arg[1]
            loc == Location(a.City, a.StateOrProvinceCode, a.PostalCode, a.CountryCode)
        IN  loc # <<>> => fout = loc
    /\ (Applied("ups.Address.String") /\ fin.arg # <<>>) =>
        LET a == fin.arg[1]
            loc == Location(a.City, a.StateProvince, a.PostalCode, a.CountryCode)
        IN  loc # <<>> => fout = loc
    /\ Applied("usps.LocationString") =>
        LET e == fin.arg
            loc == Location(e.EventCity, e.EventState, e.EventZIP, e.EventCountry)
        IN  loc # <<>> => fout = loc

ApplyFedexData ==
    /\ fpc = "input"
    /\ fin.fn = "fedex.Data"
    /\ fout' = FedexData(fin.arg, 1, NoData)
    /\ fpc' = "done"
    /\ UNCHANGED <<fin, clsVars, trkVars, synVars, conVars>>

ApplyUPSData ==
    /\ fpc = "input"
    /\ fin.fn = "ups.Data"
    /\ fout' = UPSData(fin.arg, 1, NoData)
    /\ fpc' = "done"
    /\ UNCHANGED <<fin, clsVars, trkVars, synVars, conVars>>

ApplyUSPSData ==
    /\ fpc = "input"
    /\ fin.fn = "usps.Data"
    /\ fout' = USPSData(fin.arg)
    /\ fpc' = "done"
    /\ UNCHANGED <<fin, clsVars, trkVars, synVars, conVars>>

ApplyUPSDeliveryProjection ==
    /\ fpc = "input"
    /\ fin.fn = "ups.DeliveryProjection"
    /\ fout' = UPSDeliveryProjection(fin.arg, 1, <<>>)
    /\ fpc' = "done"
    /\ UNCHANGED <<fin, clsVars, trkVars, synVars, conVars>>

\* formatEventIcon; e is a pointer and e.Type is read without a test
formatEventIcon(e) ==
    IF e = <<>> THEN Panic
    ELSE CASE e[1].Type = ParcelEventType.Delivered -> "iconDelivered"
           [] e[1].Type = ParcelEventType.Unknown -> "iconException"
           [] OTHER -> "iconDefault"

\* formatEventOneline with an empty name: the time, the description, the location
formatEventOneline(e) ==
    [Timestamp |-> e.Timestamp, Description |-> e.Description, Location |-> e.Location]

\* the prefix without the case of a single event
EventPrefixNoSingle(ct, i) ==
    IF i = 0 THEN "ldr" ELSE IF i = ct - 1 THEN "lur" ELSE "lvr"

\* the prefix of pass i of the loop over ct events:
\* ldr is '└─┬─', lvr '  ├─', lur '  └─', lor '└───'
EventPrefix(ct, i) ==
    IF ct = 1 THEN "lor"
    ELSE IF i = 0 THEN "ldr"
    ELSE IF i = ct - 1 THEN "lur"
    ELSE "lvr"

\* formatEventHistory: the text as the list of its lines, each written with
\* its "\n"; the empty list is the empty string.  Without a last event the
\* header dereferences nil.
formatEventHistory(parcel) ==
    IF ~HasData(parcel) THEN [out |-> <<>>, panicked |-> FALSE]
    ELSE LET last == LastTrackingEvent(parcel)
             Events == parcel.Data[1].Events
             ct == Len(Events)
         IN  IF last = <<>> THEN [out |-> <<>>, panicked |-> TRUE]
             ELSE [out |->
                     <<[prefix |-> "", icon |-> formatEventIcon(last), Name |-> parcel.Name,
                        Carrier |-> parcel.Carrier, Type |-> last[1].Type]>>
                     \o [k \in 1..ct |->
                            LET i == k - 1
                                e == Events[ct - i - 1 + 1]
                            IN  [prefix |-> EventPrefix(ct, i), icon |-> formatEventIcon(<<e>>),
                                 oneline |-> formatEventOneline(e)]],
                   panicked |-> FALSE]

\* events of three kinds at two times
HistoryEventInputs ==
    [Timestamp : 1..2, Description : {"a"}, Location : {"L"},
     Type : {ParcelEventType.Delivered, ParcelEventType.Unknown, ParcelEventType.Arrived}]

\* a parcel without data, and parcels with up to MaxEvents events, delivered or not
HistoryParcelInputs ==
    {NewParcel(tnUPS1, CarrierUPS, tnUPS1)}
    \cup {[NewParcel(tnUPS1, CarrierUPS, tnUPS1)
            EXCEPT !.Data = <<[Events |-> events, Delivered |-> d]>>] :
            events \in SeqsUpTo(HistoryEventInputs, MaxEvents), d \in BOOLEAN}

ApplyFormatEventHistory ==
    /\ fpc = "input"
    /\ fin.fn = "formatEventHistory"
    /\ fout' = formatEventHistory(fin.arg)
    /\ fpc' = "done"
    /\ UNCHANGED <<fin, clsVars, trkVars, synVars, conVars>>

\* C23: a parcel with n >= 1 events is rendered as a header line and n event
\* lines in reverse of the stored order; icon and status of the header are
\* those of an event with the maximum timestamp, whatever the Delivered flag;
\* the event lines begin with ldr, lvr ..., lur, a single one with lor; a
\* parcel without data is rendered as the empty string.
C23_EventHistoryLayout ==
    Applied("formatEventHistory") =>
        LET p == fin.arg
        IN  IF ~HasData(p) THEN fout = [out |-> <<>>, panicked |-> FALSE]
            ELSE LET Events == p.Data[1].Events
                     n == Len(Events)
                     line(k) == fout.out[k + 1]
                 IN  n >= 1 =>
                        /\ ~fout.panicked
                        /\ Len(fout.out) = n + 1
                        /\ \E j \in 1..n :
                            /\ \A m \in 1..n : Events[m].Timestamp <= Events[j].Timestamp
                            /\ fout.out[1].Type = Events[j].Type
                            /\ fout.out[1].icon = formatEventIcon(<<Events[j]>>)
                        /\ \A k \in 1..n :
                            /\ line(k).oneline = formatEventOneline(Events[n - k + 1])
                            /\ line(k).icon = formatEventIcon(<<Events[n - k + 1]>>)
                            /\ line(k).prefix = (IF n = 1 THEN "lor"
                                                 ELSE IF k = 1 THEN "ldr"
                                                 ELSE IF k = n THEN "lur"
                                                 ELSE "lvr")

\* three events stored newest first, the parcel not flagged as delivered
C23_Witness ==
    /\ Applied("formatEventHistory")
    /\ HasData(fin.arg)
    /\ Len(fin.arg.Data[1].Events) = 3
    /\ ~fin.arg.Data[1].Delivered
    /\ fin.arg.Data[1].Events[1].Timestamp = 2
    /\ fin.arg.Data[1].Events[3].Timestamp = 1
    /\ fout.out[1].Type = ParcelEventType.Delivered
    /\ fout.out[2].prefix = "ldr" /\ fout.out[3].prefix = "lvr" /\ fout.out[4].prefix = "lur"

\* the Track command on one entry of the map syncParcels returned: an entry
\* with an error is printed as such, any other goes to formatEventHistory
TrackPrints(p) ==
    IF HasError(p) THEN [out |-> <<p.Error>>, panicked |-> FALSE]
    ELSE formatEventHistory(p)

\* C28: every parcel in the map syncParcels returns has data with at least
\* one event, hence a last event, and the Track command's formatEventHistory
\* never meets a parcel without one.
C28_ReturnedParcelsHaveLastEvent ==
    spc = "returned" =>
        \A t \in DOMAIN allParcels :
            /\ HasData(allParcels[t])
            /\ Len(allParcels[t].Data[1].Events) >= 1
            /\ LastTrackingEvent(allParcels[t]) # <<>>
            /\ ~TrackPrints(allParcels[t]).panicked

\* returned with a parcel in the map, after a parcel with data and no events
\* came back from a client
C28_Witness ==
    /\ spc = "returned"
    /\ DOMAIN allParcels # {}
    /\ \E c \in SupportedCarriers : \E j \in DOMAIN gor[c].parcels :
            HasData(gor[c].parcels[j]) /\ Len(gor[c].parcels[j].Data[1].Events) = 0

\* C17: for each carrier, Delivered is true if and only if at least one of
\* the parcel's events carries that carrier's delivered code.
C17_DeliveredIffDeliveredEvent ==
    /\ Applied("fedex.Data") =>
        (fout.Delivered <=>
            \E r \in DOMAIN fin.arg : \E e \in DOMAIN fin.arg[r] : fin.arg[r][e] = "DL")
    /\ (Applied("ups.Data") /\ ~fout.panicked) =>
        (fout.Delivered <=>
            \E i \in DOMAIN fin.arg : fin.arg[i][1].Type = "D" \/ fin.arg[i][1].Code = "FS")
    /\ Applied("usps.Data") =>
        (fout.Delivered <=>
            \E i \in DOMAIN fin.arg.TrackingEvents :
                fin.arg.TrackingEvents[i].EventCode = "DELIVERY")

\* the data built by a client's Track holds an event of type DELIVERED
HasDeliveredEvent(data) ==
    \E i \in DOMAIN data.Events : data.Events[i].Type = ParcelEventType.Delivered

\* C29: in every parcel a client's Track produces, Delivered is true if and
\* only if at least one of its normalized events has the type DELIVERED.
C29_DeliveredAgreesWithEvents ==
    /\ Applied("fedex.Data") => (fout.Delivered <=> HasDeliveredEvent(fout))
    /\ (Applied("ups.Data") /\ ~fout.panicked) => (fout.Delivered <=> HasDeliveredEvent(fout))
    /\ Applied("usps.Data") => (fout.Delivered <=> HasDeliveredEvent(fout))

\* the days of the scheduled and rescheduled entries of the input
ScheduledDays ==
    {ParseDate(fin.arg[i].Date)[1] :
        i \in {j \in DOMAIN fin.arg : fin.arg[j].Type \in {"SDD", "RDD"}}}

\* C18: DeliveryProjection is the latest date among the delivery-date entries
\* of type SDD or RDD, entries of type DEL are ignored, and it is absent only
\* when there is no SDD or RDD entry.
C18_ProjectionIsLatestScheduled ==
    (Applied("ups.DeliveryProjection") /\ ~fout.fatal) =>
        IF ScheduledDays = {} THEN fout.DeliveryProjection = <<>>
        ELSE /\ fout.DeliveryProjection # <<>>
             /\ fout.DeliveryProjection[1] \in ScheduledDays
             /\ \A d \in ScheduledDays : d <= fout.DeliveryProjection[1]

FnInputs ==
    Call("LastTrackingEvent", ParcelInputs)
    \cup Call("fedex.Data", FedexTrackResultInputs)
    \cup Call("ups.Data", UPSActivityInputs)
    \cup Call("usps.Data", USPSResponseInputs)
    \cup Call("ups.DeliveryProjection", DeliveryDateInputs)
    \cup Call("fedex.ParcelEventType", FedexEventTypeInputs)
    \cup Call("ups.ParcelEventType", UPSStatusInputs)
    \cup Call("usps.ParcelEventType", USPSEventInputs)
    \cup Call("fedex.Address.String", FedexAddressInputs)
    \cup Call("ups.Address.String", UPSAddressInputs)
    \cup Call("usps.LocationString", USPSLocationInputs)
    \cup Call("formatEventHistory", HistoryParcelInputs)

InitNormalize ==
    /\ fin \in FnInputs
    /\ fout = <<>>
    /\ fpc = "input"
    /\ ClassifyIdle
    /\ TrackIdle
    /\ SyncIdle
    /\ ConIdle

NextNormalize ==
    \/ ApplyLastTrackingEvent
    \/ ApplyFedexData \/ ApplyUPSData \/ ApplyUSPSData
    \/ ApplyUPSDeliveryProjection
    \/ ApplyFedexParcelEventType \/ ApplyUPSParcelEventType \/ ApplyUSPSParcelEventType
    \/ ApplyFedexAddressString \/ ApplyUPSAddressString \/ ApplyUSPSLocationString
    \/ ApplyFormatEventHistory

SpecNormalize == InitNormalize /\ [][NextNormalize]_vars

====
